---- MODULE Spec2Model ----
(***************************************************************************)
(* Model of the geometric core of the AI service:                          *)
(*   ArchitectAgent.analyze_dwg_json, _find_max_y,                         *)
(*   _infer_outer_walls_from_windows, validate_demolition_plan,            *)
(*   _parse_json_response and generate_clean_slate_visualization           *)
(*   (app/agents/architect_agent.py), and                                  *)
(*   DesignerAgent._extract_room_positions, _generate_spatial_prompt,      *)
(*   _generate_perspective_depth_map, _convert_floor_plan_to_prompt,       *)
(*   _calculate_camera_hash, _generate_lineart_from_dwg,                   *)
(*   generate_interior_image and _generate_with_replicate                  *)
(*   (app/agents/designer_agent.py).                                       *)
(*                                                                         *)
(* Conventions.  A Python dict is a TLA+ record whose DOMAIN is the set of *)
(* keys that are present, so d.get(k, default) is Get(d, k, default).      *)
(* Python None is the value None where the slot otherwise holds a string   *)
(* name, and the empty tuple where it otherwise holds a number, a text or  *)
(* a dict (the value v is then <<v>>).  Coordinates are Python ints.  A    *)
(* confidence is kept in hundredths (0.5 is 50, 0.7 is 70).  A centroid    *)
(* (sum(xs)/len(xs), sum(ys)/len(ys)) is kept as the exact fraction        *)
(* <<sum(xs), sum(ys), len(xs)>>.  A text that is searched (a label, a     *)
(* viewpoint, a summary) is a sequence of characters: a Latin letter is    *)
(* itself, a Hangul syllable is written as its romanisation ("ju", "bang"  *)
(* for the two syllables of the word for kitchen), in parentheses when the *)
(* romanisation is a single letter ("(e)").                                *)
(***************************************************************************)
EXTENDS Integers, Sequences, FiniteSets, TLC

VARIABLES
    pc,          \* position of the request being served
    dwg_json,    \* analyze_dwg_json: the raw dataset (argument)
    result,      \* analyze_dwg_json: the parsed response of the interpretation step
    max_y,       \* analyze_dwg_json: local max_y
    elements,    \* analyze_dwg_json: local elements
    warnings,    \* analyze_dwg_json: local warnings
    inferred,    \* analyze_dwg_json: (inferred_walls, infer_warnings) of the last call
    ret,         \* analyze_dwg_json: the FloorPlanAnalysis it returns
    analysis,    \* _extract_room_positions: the FloorPlanAnalysis (argument)
    rooms,       \* the return value of _extract_room_positions
    flip_pos,    \* a position dict under repeated normalisation
    flip_orig,   \* the position dict it started from
    flips,       \* how many times it was normalised
    viewpoint,   \* _generate_spatial_prompt: the viewpoint text (argument)
    prompt,      \* the return value of _generate_spatial_prompt
    direction,   \* _generate_spatial_prompt: local direction
    hash_memo,   \* what hash() of this process answers for the strings hashed so far
    run,         \* how many times the service process was restarted
    run_seeds,   \* (analysis, viewpoint, seed) of the _calculate_camera_hash calls of this process
    first_seed,  \* (analysis, viewpoint, seed) of the first call of the first process
    last_args,   \* (analysis, viewpoint) of the latest call of this process
    repeated,    \* a call of this process repeated earlier arguments after a different call
    other,       \* a second FloorPlanAnalysis whose hashed string is compared
    hash_input,  \* hash_input of (analysis, viewpoint)
    other_input, \* hash_input of (other, viewpoint)
    replicate_api_key,  \* DesignerAgent.replicate_api_key is set
    request,     \* generate_interior_image: its arguments
    generated,   \* generate_interior_image: its locals and what it hands to the generator
    next_viewpoint,  \* which of the viewpoint texts is served next
    depth_map,   \* the return value of _generate_perspective_depth_map
    seen,        \* (viewpoint, prompt, depth_map) of the viewpoints served so far
    selected_element_labels,  \* validate_demolition_plan: the labels chosen for demolition (argument)
    response,    \* validate_demolition_plan: what the call of the language model did
    validation,  \* what validate_demolition_plan did: it raised, or the DemolitionValidation
    demolition_plan,  \* generate_clean_slate_visualization: the DemolitionValidation (argument)
    clean_slate, \* the return value of generate_clean_slate_visualization
    replicate_args,  \* _generate_with_replicate: prompt, depth_map_base64 and control_type (arguments)
    polls,       \* _generate_with_replicate: how many times the prediction's status was fetched
    status,      \* _generate_with_replicate: the status of the last answered poll
    replicate_result  \* the return value of _generate_with_replicate

vars == <<pc, dwg_json, result, max_y, elements, warnings, inferred, ret,
          analysis, rooms, flip_pos, flip_orig, flips, viewpoint, prompt, direction,
          hash_memo, run, run_seeds, first_seed, last_args, repeated,
          other, hash_input, other_input, replicate_api_key, request, generated,
          next_viewpoint, depth_map, seen,
          selected_element_labels, response, validation, demolition_plan, clean_slate,
          replicate_args, polls, status, replicate_result>>

promptVars == <<viewpoint, prompt, direction>>

hashVars == <<hash_memo, run, run_seeds, first_seed, last_args, repeated>>

hashInputVars == <<other, hash_input, other_input>>

imageVars == <<replicate_api_key, request, generated>>

viewVars == <<next_viewpoint, depth_map, seen>>

demolitionVars == <<selected_element_labels, response, validation, demolition_plan, clean_slate>>

replicateVars == <<replicate_args, polls, status, replicate_result>>

(***************************************************************************)
(* Bounds of the model.                                                    *)
(***************************************************************************)
MaxWindows == 2
MaxWalls == 1
MaxElems == 2
MaxPlanElems == 2
MaxFlipCoord == 4
MaxFlips == 2
MaxRestarts == 1
MaxHashElems == 2

(***************************************************************************)
(* Python helpers.                                                         *)
(***************************************************************************)
None == "None"

EmptyDict == [k \in {} |-> 0]

Get(d, k, default) == IF k \in DOMAIN d THEN d[k] ELSE default

DictSet(d, k, v) == [j \in (DOMAIN d) \cup {k} |-> IF j = k THEN v ELSE d[j]]

SeqsUpTo(S, n) == UNION {[1..k -> S] : k \in 0..n}

Min(S) == CHOOSE m \in S : \A n \in S : m <= n

Max(S) == CHOOSE m \in S : \A n \in S : m >= n

(***************************************************************************)
(* Text that is produced.  A produced description is the sequence of its   *)
(* words (punctuation stays on its word), so "x in description" for a word *)
(* x is a membership test and the empty string is << >>.  A formatted      *)
(* number is ToString of it; "{area_sqm}sqm" is the two tokens of the      *)
(* number and "sqm".                                                       *)
(***************************************************************************)
\* sep.join(parts) for a list of texts; the separator is one token
RECURSIVE Join(_, _)
Join(parts, sep) ==
    IF parts = << >> THEN << >>
    ELSE IF Len(parts) = 1 THEN parts[1]
    ELSE parts[1] \o <<sep>> \o Join(Tail(parts), sep)

\* Optional[float]: None is << >>, a number n is <<n>>
NoNumber == << >>

OptionalGet(d, k) == IF k \in DOMAIN d THEN <<d[k]>> ELSE NoNumber

\* truth value of an Optional[float]
Truthy(opt) == opt # NoNumber /\ opt[1] # 0

\* int(estimated_area * 3.3) for an estimated_area that is a whole number
AreaSqm(estimated_area) == (estimated_area[1] * 33) \div 10

(***************************************************************************)
(* schemas.py                                                              *)
(***************************************************************************)
StructuralElementType ==
    {"load_bearing_wall", "non_load_bearing_wall", "pillar", "beam", "window",
     "door", "plumbing", "electrical", "hvac"}

StructuralElement(element_type, label, position, is_demolishable, demolition_risk, demolition_note, confidence) ==
    [element_type |-> element_type, label |-> label, position |-> position,
     is_demolishable |-> is_demolishable, demolition_risk |-> demolition_risk,
     demolition_note |-> demolition_note, confidence |-> confidence]

(***************************************************************************)
(* Inputs of analyze_dwg_json.                                             *)
(***************************************************************************)
WindowItems ==
    { [name |-> "W-A", coordinates |-> [x |-> 10, y |-> 0, width |-> 40, height |-> 3]],
      [name |-> "W-B", coordinates |-> [x |-> 0, width |-> 20]],
      [name |-> "W-C", coordinates |-> [x |-> 30, y |-> 3, width |-> 40, height |-> 3]] }

WallItems ==
    { [coordinates |-> [x |-> 0, y |-> 0, width |-> 60, height |-> 2]],
      [coordinates |-> [x |-> 0, y |-> 3, width |-> 60, height |-> 1]],
      [coordinates |-> [x |-> 0, y |-> -5, width |-> 60, height |-> 2]] }

DoorItems == { [coordinates |-> [x |-> 20, y |-> 6, width |-> 9, height |-> 1]] }

OtherItems == { [layer |-> "A-COLS"] }

DwgJsons ==
    { [walls |-> wl, doors |-> d[1], windows |-> wn, elements |-> d[2]] :
        wl \in SeqsUpTo(WallItems, MaxWalls),
        wn \in SeqsUpTo(WindowItems, MaxWindows),
        d \in { <<(<< >>), (<< >>)>> } \cup
              { <<(<<dr>>), (<<ot>>)>> : dr \in DoorItems, ot \in OtherItems } }

ResultElems ==
    { [element_type |-> "load_bearing_wall", label |-> "wall-1",
       position |-> [x |-> 0, y |-> 1, width |-> 60, height |-> 2],
       is_demolishable |-> FALSE, demolition_risk |-> "high",
       demolition_note |-> "structural", confidence |-> 90],
      [element_type |-> "window", label |-> "window-1",
       position |-> [x |-> 10, width |-> 40, height |-> 3],
       is_demolishable |-> TRUE, confidence |-> 60],
      [element_type |-> "partition", label |-> "part-1"] }

Results ==
    { [elements |-> es] : es \in SeqsUpTo(ResultElems, MaxElems) } \cup
    { [elements |-> es, warnings |-> <<[text |-> "check scale"]>>,
       data_quality_notes |-> <<[text |-> "layer names missing"]>>] :
        es \in SeqsUpTo(ResultElems, MaxElems) }

(***************************************************************************)
(* ArchitectAgent._find_max_y                                              *)
(***************************************************************************)
RECURSIVE MaxYOver(_, _)
MaxYOver(items, acc) ==
    IF items = << >> THEN acc
    ELSE LET coords == Get(Head(items), "coordinates", EmptyDict)
             y == Get(coords, "y", 0) + Get(coords, "height", 0)
         IN  MaxYOver(Tail(items), IF y > acc THEN y ELSE acc)

FindMaxY(dj) ==
    MaxYOver(Get(dj, "elements", << >>),
      MaxYOver(Get(dj, "windows", << >>),
        MaxYOver(Get(dj, "doors", << >>),
          MaxYOver(Get(dj, "walls", << >>), 0))))

(***************************************************************************)
(* ArchitectAgent.analyze_dwg_json, the body of the loop over the          *)
(* interpreted elements.                                                   *)
(***************************************************************************)
DefaultConfidence == 50

ZeroPosition == [x |-> 0, y |-> 0, width |-> 0, height |-> 0]

ElementPosition(elem) == Get(elem, "position", ZeroPosition)

\* the flip with the operands of the subtraction exchanged
NormalizePositionSignSlip(position, my) ==
    IF my > 0
    THEN DictSet(position, "y", Get(position, "y", 0) - my - Get(position, "height", 0))
    ELSE position

\* the flip applied also when max_y is 0
NormalizePositionAlways(position, my) ==
    IF my >= 0
    THEN DictSet(position, "y", my - Get(position, "y", 0) - Get(position, "height", 0))
    ELSE position

NormalizePosition(position, my) ==
    IF my > 0
    THEN DictSet(position, "y", my - Get(position, "y", 0) - Get(position, "height", 0))
    ELSE position

ParseElementType(elem) ==
    LET t == Get(elem, "element_type", "non_load_bearing_wall")
    IN  IF t \in StructuralElementType THEN t ELSE "non_load_bearing_wall"

NormalizeElement(elem, my) ==
    StructuralElement(
        ParseElementType(elem),
        Get(elem, "label", "Unknown"),
        NormalizePosition(ElementPosition(elem), my),
        Get(elem, "is_demolishable", TRUE),
        Get(elem, "demolition_risk", "none"),
        Get(elem, "demolition_note", None),
        Get(elem, "confidence", DefaultConfidence))

NormalizeElements(elems, my) ==
    [i \in 1..Len(elems) |-> NormalizeElement(elems[i], my)]

(***************************************************************************)
(* ArchitectAgent._infer_outer_walls_from_windows                          *)
(***************************************************************************)
WallThickness == 20

InferredConfidence == 70

WindowCoord(win) ==
    LET coords == Get(win, "coordinates", EmptyDict)
    IN  [name |-> Get(win, "name", "window"),
         x |-> Get(coords, "x", 0), y |-> Get(coords, "y", 0),
         width |-> Get(coords, "width", 0), height |-> Get(coords, "height", 0)]

WallYPositions(walls) ==
    { Get(Get(walls[i], "coordinates", EmptyDict), "y", 0) : i \in 1..Len(walls) }

\* a wall at the very y of the outermost windows no longer counts
WallsStrictlyAboveWindows(wall_y_positions, min_window_y) ==
    { y \in wall_y_positions : y < min_window_y }

WallsAboveWindows(wall_y_positions, min_window_y) ==
    { y \in wall_y_positions : y <= min_window_y }

\* max_x taken from the windows' x alone, their width forgotten
InferredWallNoWidth(outer_windows, min_window_y, my) ==
    LET min_x == Min({ w.x : w \in outer_windows })
        max_x == Max({ w.x : w \in outer_windows })
        wall_y_flipped == IF my > 0 THEN my - min_window_y - WallThickness
                          ELSE min_window_y
    IN  StructuralElement(
            "load_bearing_wall",
            "outer-wall-inferred",
            [x |-> min_x, y |-> wall_y_flipped, width |-> max_x - min_x,
             height |-> WallThickness],
            FALSE, "high", "inferred from window positions", InferredConfidence)

\* the inferred wall built with the defaults of a detected element
InferredWallDefaults(outer_windows, min_window_y, my) ==
    LET min_x == Min({ w.x : w \in outer_windows })
        max_x == Max({ w.x + w.width : w \in outer_windows })
        wall_y_flipped == IF my > 0 THEN my - min_window_y - WallThickness
                          ELSE min_window_y
    IN  StructuralElement(
            "non_load_bearing_wall",
            "outer-wall-inferred",
            [x |-> min_x, y |-> wall_y_flipped, width |-> max_x - min_x,
             height |-> WallThickness],
            TRUE, "none", "inferred from window positions", InferredConfidence)

InferredWall(outer_windows, min_window_y, my) ==
    LET min_x == Min({ w.x : w \in outer_windows })
        max_x == Max({ w.x + w.width : w \in outer_windows })
        wall_y_flipped == IF my > 0 THEN my - min_window_y - WallThickness
                          ELSE min_window_y
    IN  StructuralElement(
            "load_bearing_wall",
            "outer-wall-inferred",
            [x |-> min_x, y |-> wall_y_flipped, width |-> max_x - min_x,
             height |-> WallThickness],
            FALSE, "high", "inferred from window positions", InferredConfidence)

InferOuterWallsFromWindows(dj, existing_elements, my) ==
    LET windows == Get(dj, "windows", << >>)
        walls == Get(dj, "walls", << >>)
    IN  IF windows = << >> THEN [walls |-> << >>, warnings |-> << >>]
        ELSE
          LET window_coords == { WindowCoord(windows[i]) : i \in 1..Len(windows) }
              min_window_y == Min({ w.y : w \in window_coords })
              walls_above == WallsAboveWindows(WallYPositions(walls), min_window_y)
              outer_windows == { w \in window_coords : w.y = min_window_y }
          IN  IF walls_above # {} THEN [walls |-> << >>, warnings |-> << >>]
              ELSE [walls |-> IF outer_windows # {}
                              THEN << InferredWall(outer_windows, min_window_y, my) >>
                              ELSE << >>,
                    warnings |-> << [text |-> "outer wall missing", y |-> min_window_y] >>]

\* the inferred walls put in front of the detected elements
ExtendElementsPrepend(elems, inferred_walls) ==
    IF inferred_walls # << >> THEN inferred_walls \o elems ELSE elems

\* lines 360-362: what analyze_dwg_json does with the inferred walls
ExtendElements(elems, inferred_walls) ==
    IF inferred_walls # << >> THEN elems \o inferred_walls ELSE elems

ExtendWarnings(warns, inferred_walls, infer_warnings) ==
    IF inferred_walls # << >> THEN warns \o infer_warnings ELSE warns

(***************************************************************************)
(* FloorPlanAnalysis returned by analyze_dwg_json.                         *)
(***************************************************************************)
FloorPlanAnalysis(res, elems, warns) ==
    [estimated_area |-> OptionalGet(res, "estimated_area"),
     room_count |-> Get(res, "room_count", 0),
     bathroom_count |-> Get(res, "bathroom_count", 0),
     elements |-> elems,
     analysis_summary |-> Get(res, "analysis_summary", << >>),
     warnings |-> warns]

NoAnalysis == FloorPlanAnalysis(EmptyDict, << >>, << >>)

NoInference == [walls |-> << >>, warnings |-> << >>]

(***************************************************************************)
(* Strings that are searched: str.lower() and the `in` operator.           *)
(***************************************************************************)
UpperToLower ==
    [A |-> "a", B |-> "b", C |-> "c", D |-> "d", E |-> "e", F |-> "f", G |-> "g",
     H |-> "h", I |-> "i", J |-> "j", K |-> "k", L |-> "l", M |-> "m", N |-> "n",
     O |-> "o", P |-> "p", Q |-> "q", R |-> "r", S |-> "s", T |-> "t", U |-> "u",
     V |-> "v", W |-> "w", X |-> "x", Y |-> "y", Z |-> "z"]

Lower(s) ==
    [i \in 1..Len(s) |-> IF s[i] \in DOMAIN UpperToLower THEN UpperToLower[s[i]] ELSE s[i]]

Contains(s, sub) ==
    \E i \in 1..(Len(s) - Len(sub) + 1) : SubSeq(s, i, i + Len(sub) - 1) = sub

ContainsAny(s, subs) == \E sub \in subs : Contains(s, sub)

(***************************************************************************)
(* DesignerAgent._extract_room_positions                                   *)
(***************************************************************************)
RoomNames == <<"kitchen", "living_room", "bedroom", "bathroom", "entrance">>

KitchenKeywords == { <<"ju", "bang">>, <<"k", "i", "t", "c", "h", "e", "n">> }

LivingRoomKeywords == { <<"geo", "sil">>, <<"l", "i", "v", "i", "n", "g">> }

BedroomKeywords == { <<"chim", "sil">>, <<"b", "e", "d", "r", "o", "o", "m">>, <<"bang">> }

BathroomKeywords ==
    { <<"yok", "sil">>, <<"b", "a", "t", "h", "r", "o", "o", "m">>, <<"hwa", "jang", "sil">> }

EntranceKeywords == { <<"hyeon", "gwan">>, <<"e", "n", "t", "r", "a", "n", "c", "e">> }

ContinuousKeywords == { <<"dan", "il">>, <<"yeon", "sok">>, <<"jeon", "myeon">> }

NoRoom == "no_room"

\* the chain with the bedroom test moved to the front
RoomOfLabelBedroomFirst(label_lower) ==
    IF ContainsAny(label_lower, BedroomKeywords) THEN "bedroom"
    ELSE IF ContainsAny(label_lower, KitchenKeywords) THEN "kitchen"
    ELSE IF ContainsAny(label_lower, LivingRoomKeywords) THEN "living_room"
    ELSE IF ContainsAny(label_lower, BathroomKeywords) THEN "bathroom"
    ELSE IF ContainsAny(label_lower, EntranceKeywords) THEN "entrance"
    ELSE NoRoom

\* the if/elif chain of lines 680-689
RoomOfLabel(label_lower) ==
    IF ContainsAny(label_lower, KitchenKeywords) THEN "kitchen"
    ELSE IF ContainsAny(label_lower, LivingRoomKeywords) THEN "living_room"
    ELSE IF ContainsAny(label_lower, BedroomKeywords) THEN "bedroom"
    ELSE IF ContainsAny(label_lower, BathroomKeywords) THEN "bathroom"
    ELSE IF ContainsAny(label_lower, EntranceKeywords) THEN "entrance"
    ELSE NoRoom

\* None in a slot that otherwise holds a tuple
NoCenter == << >>

LabelLower(element) == IF element.label # << >> THEN Lower(element.label) ELSE << >>

WindowEntry(element) ==
    LET pos == element.position
    IN  [label |-> element.label,
         x |-> Get(pos, "x", 50), y |-> Get(pos, "y", 50),
         width |-> Get(pos, "width", 20), height |-> Get(pos, "height", 5),
         is_continuous |-> ContainsAny(LabelLower(element), ContinuousKeywords)]

DoorEntry(element) ==
    LET pos == element.position
    IN  [label |-> element.label, x |-> Get(pos, "x", 50), y |-> Get(pos, "y", 50)]

EmptyRooms ==
    [kitchen |-> [elements |-> << >>, center |-> NoCenter],
     living_room |-> [elements |-> << >>, center |-> NoCenter],
     bedroom |-> [elements |-> << >>, center |-> NoCenter],
     bathroom |-> [elements |-> << >>, center |-> NoCenter],
     entrance |-> [elements |-> << >>, center |-> NoCenter],
     windows |-> << >>,
     doors |-> << >>]

\* the pass with a window put at the front of the list
CollectElementWindowFirst(acc, element) ==
    LET room == RoomOfLabel(LabelLower(element))
        member == [pos |-> element.position, label |-> element.label]
        acc1 == IF element.element_type = "window"
                THEN [acc EXCEPT !.windows = <<WindowEntry(element)>> \o @]
                ELSE IF element.element_type = "door"
                THEN [acc EXCEPT !.doors = Append(@, DoorEntry(element))]
                ELSE acc
    IN  IF room = NoRoom THEN acc1
        ELSE [acc1 EXCEPT ![room].elements = Append(@, member)]

\* lines 657-689: one pass of the loop over analysis.elements
CollectElement(acc, element) ==
    LET room == RoomOfLabel(LabelLower(element))
        member == [pos |-> element.position, label |-> element.label]
        acc1 == IF element.element_type = "window"
                THEN [acc EXCEPT !.windows = Append(@, WindowEntry(element))]
                ELSE IF element.element_type = "door"
                THEN [acc EXCEPT !.doors = Append(@, DoorEntry(element))]
                ELSE acc
    IN  IF room = NoRoom THEN acc1
        ELSE [acc1 EXCEPT ![room].elements = Append(@, member)]

RECURSIVE CollectElements(_, _)
CollectElements(acc, elems) ==
    IF elems = << >> THEN acc
    ELSE CollectElements(CollectElement(acc, Head(elems)), Tail(elems))

RECURSIVE SumOf(_, _, _)
SumOf(members, key, default) ==
    IF members = << >> THEN 0
    ELSE Get(Head(members).pos, key, default) + SumOf(Tail(members), key, default)

RECURSIVE WithPos(_)
WithPos(members) ==
    IF members = << >> THEN << >>
    ELSE IF DOMAIN Head(members).pos # {}
         THEN <<Head(members)>> \o WithPos(Tail(members))
         ELSE WithPos(Tail(members))

\* the mean taken over the whole member list instead of the members that have
\* a position
ComputeCenterAllMembers(room_data) ==
    LET placed == WithPos(room_data.elements)
    IN  IF room_data.elements # << >> /\ placed # << >>
        THEN [room_data EXCEPT !.center =
                 <<SumOf(placed, "x", 50), SumOf(placed, "y", 50), Len(room_data.elements)>>]
        ELSE room_data

\* lines 691-697
ComputeCenter(room_data) ==
    LET placed == WithPos(room_data.elements)
    IN  IF room_data.elements # << >> /\ placed # << >>
        THEN [room_data EXCEPT !.center =
                 <<SumOf(placed, "x", 50), SumOf(placed, "y", 50), Len(placed)>>]
        ELSE room_data

DefaultKitchenCenter == <<60, 50, 1>>

DefaultLivingRoomCenter == <<30, 50, 1>>

DefaultEntranceCenter == <<85, 50, 1>>

DefaultWindow ==
    [label |-> <<"geo", "sil", " ", "chang", "mun">>, x |-> 10, y |-> 50,
     width |-> 30, height |-> 5, is_continuous |-> TRUE]

\* lines 699-706
DefaultCenter(room_name, room_data) ==
    IF room_data.center # NoCenter THEN room_data
    ELSE IF room_name = "kitchen" THEN [room_data EXCEPT !.center = DefaultKitchenCenter]
    ELSE IF room_name = "living_room" THEN [room_data EXCEPT !.center = DefaultLivingRoomCenter]
    ELSE IF room_name = "entrance" THEN [room_data EXCEPT !.center = DefaultEntranceCenter]
    ELSE room_data

IsRoomName(k) == \E i \in 1..Len(RoomNames) : RoomNames[i] = k

\* the extraction with lines 708-719 left out: no window stands in for a missing one
ExtractRoomPositionsNoDefaultWindow(an) ==
    LET collected == CollectElements(EmptyRooms, an.elements)
    IN  [k \in DOMAIN collected |->
            IF IsRoomName(k)
            THEN DefaultCenter(k, ComputeCenter(collected[k]))
            ELSE collected[k]]

ExtractRoomPositions(an) ==
    LET collected == CollectElements(EmptyRooms, an.elements)
        centred == [k \in DOMAIN collected |->
                      IF IsRoomName(k)
                      THEN DefaultCenter(k, ComputeCenter(collected[k]))
                      ELSE collected[k]]
    IN  [centred EXCEPT !.windows = IF @ = << >> THEN <<DefaultWindow>> ELSE @]

NoRooms == EmptyRooms

(***************************************************************************)
(* Inputs of _extract_room_positions.                                      *)
(***************************************************************************)
PlanElement(element_type, label, position) ==
    StructuralElement(element_type, label, position, TRUE, "none", None, 90)

PlanElems ==
    { PlanElement("plumbing", <<"ju", "bang", " ", "sing", "keu">>, [x |-> 60, y |-> 40, width |-> 10, height |-> 5]),
      PlanElement("non_load_bearing_wall", <<"K", "i", "t", "c", "h", "e", "n">>, [x |-> 70, y |-> 20, width |-> 4, height |-> 30]),
      PlanElement("window", <<"geo", "sil", " ", "jeon", "myeon", "chang">>, [x |-> 10, y |-> 40, width |-> 30, height |-> 5]),
      PlanElement("load_bearing_wall", <<"L", "I", "V", "I", "N", "G", "/", "ju", "bang">>, [x |-> 45, y |-> 50, width |-> 2, height |-> 40]),
      PlanElement("door", <<"an", "bang", " ", "mun">>, [x |-> 20]),
      PlanElement("plumbing", <<"yok", "sil", " ", "bang", "su">>, EmptyDict),
      PlanElement("plumbing", <<"hwa", "jang", "sil">>, [x |-> 80, y |-> 10, width |-> 8, height |-> 8]),
      PlanElement("door", <<"hyeon", "gwan">>, [x |-> 90, y |-> 55, width |-> 5, height |-> 2]),
      PlanElement("pillar", <<"gi", "dung">>, [x |-> 50, y |-> 50, width |-> 3, height |-> 3]),
      PlanElement("window", << >>, [x |-> 5, y |-> 5, width |-> 20, height |-> 5]) }

\* the aggregate metadata of a plan: the fields of the interpretation's answer
PlanMetadata ==
    { EmptyDict,
      [estimated_area |-> 30, room_count |-> 3, bathroom_count |-> 2,
       analysis_summary |-> <<"O", "p", "e", "n", ",", " ", "L", "-", "s", "h", "a", "p", "e", "d">>],
      [estimated_area |-> 0, bathroom_count |-> 1, analysis_summary |-> <<"neolb", "eun", " ", "geo", "sil">>] }

Plans ==
    { FloorPlanAnalysis(md, es, << >>) : md \in PlanMetadata, es \in SeqsUpTo(PlanElems, MaxPlanElems) }

(***************************************************************************)
(* DesignerAgent._convert_floor_plan_to_prompt                             *)
(***************************************************************************)
OpenKeyword == <<"(o)", "peun">>

WideKeyword == <<"neolb">>

\* lines 545-551: window_info["direction"], "" when the key is not set
WindowDirection(pos) ==
    IF DOMAIN pos = {} THEN ""
    ELSE IF Get(pos, "y", 50) < 30 THEN "north"
    ELSE IF Get(pos, "y", 50) > 70 THEN "south"
    ELSE IF Get(pos, "x", 50) < 30 THEN "west"
    ELSE IF Get(pos, "x", 50) > 70 THEN "east"
    ELSE ""

\* lines 540-563
WindowInfo(element) ==
    LET pos == element.position
    IN  [label |-> element.label,
         width |-> Get(pos, "width", 0), height |-> Get(pos, "height", 0),
         x |-> Get(pos, "x", 0), y |-> Get(pos, "y", 0),
         direction |-> WindowDirection(pos)]

RECURSIVE WindowInfos(_)
WindowInfos(elems) ==
    IF elems = << >> THEN << >>
    ELSE IF Head(elems).element_type = "window"
         THEN <<WindowInfo(Head(elems))>> \o WindowInfos(Tail(elems))
         ELSE WindowInfos(Tail(elems))

Abs(n) == IF n < 0 THEN 0 - n ELSE n

\* f"{direction}-facing " if direction else ""
DirStr(window_direction) == IF window_direction # "" THEN <<window_direction, "-facing">> ELSE << >>

\* the directions of a set, joined in the order north, south, west, east
DirectionOrder == <<"north", "south", "west", "east">>

RECURSIVE JoinDirections(_, _)
JoinDirections(order, directions) ==
    IF order = << >> THEN << >>
    ELSE IF Head(order) \in directions
         THEN << <<Head(order)>> >> \o JoinDirections(Tail(order), directions)
         ELSE JoinDirections(Tail(order), directions)

\* lines 573-608: the feature that describes the windows
WindowFeature(windows) ==
    IF Len(windows) = 1
    THEN LET w == windows[1]
             label == Lower(w.label)
             is_continuous == ContainsAny(label, ContinuousKeywords)
         IN  IF w.width > 30 \/ is_continuous
             THEN <<"one", "large", "continuous", "floor-to-ceiling">> \o DirStr(w.direction) \o <<"window", "wall", "spanning", "the", "living", "room", "without", "any", "pillars", "or", "dividers">>
             ELSE <<"single">> \o DirStr(w.direction) \o <<"window", "with", "natural", "light">>
    ELSE IF Len(windows) = 2
    THEN LET w1 == windows[1]
             w2 == windows[2]
             same_wall == Abs(w1.y - w2.y) < 10 \/ Abs(w1.x - w2.x) < 10
         IN  IF same_wall
             THEN <<"two">> \o DirStr(w1.direction) \o <<"windows", "on", "the", "same", "wall">>
             ELSE <<"windows", "on", "multiple", "walls", "providing", "cross-ventilation">>
    ELSE LET directions == { windows[i].direction : i \in 1..Len(windows) } \ {""}
         IN  IF directions # {}
             THEN <<"multiple", "windows", "facing">> \o Join(JoinDirections(DirectionOrder, directions), ", ") \o <<"with", "abundant", "natural", "light">>
             ELSE <<"multiple", "windows", "with", "natural", "light">>

\* the parts list emptied of its fallback text: " ".join(parts) alone
ConvertResultNoDefault(parts) == Join(parts, " ")

\* line 632
ConvertResult(parts) ==
    IF parts # << >> THEN Join(parts, " ") ELSE <<"modern", "apartment", "interior">>

ConvertFloorPlanToPrompt(an) ==
    LET area_part ==
            IF Truthy(an.estimated_area)
            THEN << <<"a", ToString(AreaSqm(an.estimated_area)), "square", "meter", "apartment">> >>
            ELSE << >>
        room_info ==
            (IF an.room_count # 0 THEN << <<ToString(an.room_count), "bedrooms">> >> ELSE << >>) \o
            (IF an.bathroom_count # 0 THEN << <<ToString(an.bathroom_count), "bathrooms">> >> ELSE << >>)
        room_part ==
            IF room_info # << >> THEN << <<"with">> \o Join(room_info, ", ") >> ELSE << >>
        es == an.elements
        is_kitchen(e) == ContainsAny(LabelLower(e), KitchenKeywords)
        has_open_kitchen ==
            \E i \in 1..Len(es) :
                /\ is_kitchen(es[i])
                /\ \/ Contains(LabelLower(es[i]), OpenKeyword)
                   \/ es[i].element_type = "non_load_bearing_wall"
        has_living_room ==
            \E i \in 1..Len(es) : ContainsAny(LabelLower(es[i]), LivingRoomKeywords)
        windows == WindowInfos(es)
        features ==
            (IF has_open_kitchen THEN << <<"open-plan", "kitchen", "connected", "to", "living", "area">> >> ELSE << >>) \o
            (IF has_living_room THEN << <<"spacious", "living", "room">> >> ELSE << >>) \o
            (IF windows # << >> THEN << WindowFeature(windows) >> ELSE << >>)
        feature_part ==
            IF features # << >> THEN << <<"featuring">> \o Join(features, ", ") >> ELSE << >>
        summary_lower == Lower(an.analysis_summary)
        summary_part ==
            (IF Contains(summary_lower, WideKeyword) \/ Contains(summary_lower, <<"o", "p", "e", "n">>)
             THEN << <<"with", "open", "floor", "plan">> >> ELSE << >>) \o
            (IF \/ Contains(summary_lower, <<"(g)">>)
                \/ Contains(summary_lower, <<"l", "ja">>)
                \/ Contains(summary_lower, <<"l", "-", "s", "h", "a", "p", "e", "d">>)
             THEN << <<"L-shaped", "layout">> >> ELSE << >>)
    IN  ConvertResult(area_part \o room_part \o feature_part \o summary_part)

(***************************************************************************)
(* DesignerAgent._generate_spatial_prompt                                  *)
(***************************************************************************)
\* the comparison of the two axes with a tie given to the horizontal one
DirectionTieSideways(room_positions) ==
    LET kitchen_center == room_positions.kitchen.center
        living_center == room_positions.living_room.center
        dx == living_center[1] * kitchen_center[3] - kitchen_center[1] * living_center[3]
        dy == living_center[2] * kitchen_center[3] - kitchen_center[2] * living_center[3]
    IN  IF kitchen_center # NoCenter /\ living_center # NoCenter
        THEN IF Abs(dx) >= Abs(dy)
             THEN IF dx < 0 THEN "left" ELSE "right"
             ELSE IF dy < 0 THEN "forward" ELSE "backward"
        ELSE "forward"

\* lines 758-772.  The centres are the fractions <<sum(xs), sum(ys), len(xs)>>,
\* so dx and dy are compared through their numerators over the common
\* denominator len(kitchen) * len(living_room) > 0.
Direction(room_positions) ==
    LET kitchen_center == room_positions.kitchen.center
        living_center == room_positions.living_room.center
        dx == living_center[1] * kitchen_center[3] - kitchen_center[1] * living_center[3]
        dy == living_center[2] * kitchen_center[3] - kitchen_center[2] * living_center[3]
    IN  IF kitchen_center # NoCenter /\ living_center # NoCenter
        THEN IF Abs(dx) > Abs(dy)
             THEN IF dx < 0 THEN "left" ELSE "right"
             ELSE IF dy < 0 THEN "forward" ELSE "backward"
        ELSE "forward"

\* the chain with the bedroom test moved before the entrance test
ViewpointCaseBedroomBeforeEntrance(viewpoint_lower) ==
    IF \/ Contains(viewpoint_lower, <<"k", "i", "t", "c", "h", "e", "n">>) /\ Contains(viewpoint_lower, <<"l", "i", "v", "i", "n", "g">>)
       \/ Contains(viewpoint_lower, <<"ju", "bang", "(e)", "seo">>)
    THEN "kitchen_to_living"
    ELSE IF \/ Contains(viewpoint_lower, <<"l", "i", "v", "i", "n", "g">>) /\ Contains(viewpoint_lower, <<"k", "i", "t", "c", "h", "e", "n">>)
            \/ Contains(viewpoint_lower, <<"geo", "sil", "(e)", "seo">>)
    THEN "living_to_kitchen"
    ELSE IF Contains(viewpoint_lower, <<"w", "i", "n", "d", "o", "w">>) \/ Contains(viewpoint_lower, <<"chang", "ga">>)
    THEN "window"
    ELSE IF Contains(viewpoint_lower, <<"b", "e", "d", "r", "o", "o", "m">>) \/ Contains(viewpoint_lower, <<"chim", "sil">>)
    THEN "bedroom"
    ELSE IF Contains(viewpoint_lower, <<"e", "n", "t", "r", "a", "n", "c", "e">>) \/ Contains(viewpoint_lower, <<"hyeon", "gwan">>)
    THEN "entrance"
    ELSE IF Contains(viewpoint_lower, <<"b", "a", "t", "h", "r", "o", "o", "m">>) \/ Contains(viewpoint_lower, <<"yok", "sil">>)
    THEN "bathroom"
    ELSE "default"

\* the chain of lines 782-840: which branch a lower-cased viewpoint takes
ViewpointCase(viewpoint_lower) ==
    IF \/ Contains(viewpoint_lower, <<"k", "i", "t", "c", "h", "e", "n">>) /\ Contains(viewpoint_lower, <<"l", "i", "v", "i", "n", "g">>)
       \/ Contains(viewpoint_lower, <<"ju", "bang", "(e)", "seo">>)
    THEN "kitchen_to_living"
    ELSE IF \/ Contains(viewpoint_lower, <<"l", "i", "v", "i", "n", "g">>) /\ Contains(viewpoint_lower, <<"k", "i", "t", "c", "h", "e", "n">>)
            \/ Contains(viewpoint_lower, <<"geo", "sil", "(e)", "seo">>)
    THEN "living_to_kitchen"
    ELSE IF Contains(viewpoint_lower, <<"w", "i", "n", "d", "o", "w">>) \/ Contains(viewpoint_lower, <<"chang", "ga">>)
    THEN "window"
    ELSE IF Contains(viewpoint_lower, <<"e", "n", "t", "r", "a", "n", "c", "e">>) \/ Contains(viewpoint_lower, <<"hyeon", "gwan">>)
    THEN "entrance"
    ELSE IF Contains(viewpoint_lower, <<"b", "e", "d", "r", "o", "o", "m">>) \/ Contains(viewpoint_lower, <<"chim", "sil">>)
    THEN "bedroom"
    ELSE IF Contains(viewpoint_lower, <<"b", "a", "t", "h", "r", "o", "o", "m">>) \/ Contains(viewpoint_lower, <<"yok", "sil">>)
    THEN "bathroom"
    ELSE "default"

\* lines 782-836: spatial_parts of the branch taken
SpatialParts(case, area_sqm, windows) ==
    LET main_window == windows[1]
        one_window_wall == main_window.is_continuous \/ Len(windows) = 1
    IN  IF case = "kitchen_to_living"
        THEN << <<"Interior", "photography", "of", "a", ToString(area_sqm), "sqm", "modern", "Korean", "apartment", "living", "room">>,
                   <<"POV", "shot", "from", "behind", "kitchen", "counter", "looking", "at", "the", "living", "room">>,
                   <<"Kitchen", "counter", "and", "cabinets", "visible", "in", "the", "FOREGROUND", "at", "bottom", "of", "frame">>,
                   <<"Living", "room", "sofa", "and", "furniture", "in", "the", "MIDDLE", "of", "frame">> >> \o
             (IF windows # << >>
              THEN IF one_window_wall
                   THEN << <<"Large", "floor-to-ceiling", "window", "wall", "in", "the", "BACKGROUND", "spanning", "the", "far", "wall,", "one", "continuous", "window", "without", "pillars">> >>
                   ELSE << <<"Windows", "visible", "in", "the", "BACKGROUND", "at", "the", "far", "wall">> >>
              ELSE << >>) \o
             << <<"NO", "kitchen", "appliances", "or", "sink", "visible,", "those", "are", "behind", "the", "camera">> >>
        ELSE IF case = "living_to_kitchen"
        THEN << <<"Interior", "photography", "of", "a", ToString(area_sqm), "sqm", "modern", "Korean", "apartment", "kitchen">>,
                   <<"POV", "shot", "from", "living", "room", "sofa", "looking", "at", "the", "open", "kitchen">>,
                   <<"Sofa", "armrest", "or", "coffee", "table", "edge", "visible", "in", "the", "FOREGROUND", "at", "bottom", "of", "frame">>,
                   <<"Open", "kitchen", "with", "island", "counter,", "cabinets,", "and", "appliances", "in", "the", "CENTER", "and", "BACKGROUND", "of", "frame">>,
                   <<"Kitchen", "sink,", "refrigerator,", "and", "cooking", "area", "clearly", "visible">>,
                   <<"Natural", "light", "coming", "from", "BEHIND", "the", "camera", "(from", "living", "room", "windows)">>,
                   <<"NO", "windows", "directly", "visible", "in", "this", "view,", "windows", "are", "behind", "the", "viewer">> >>
        ELSE IF case = "window"
        THEN << <<"Interior", "photography", "of", "a", ToString(area_sqm), "sqm", "modern", "Korean", "apartment">>,
                   <<"Camera", "facing", "towards", "the", "windows">> >> \o
             (IF windows # << >> /\ one_window_wall
              THEN << <<"ONE", "large", "continuous", "floor-to-ceiling", "window", "wall", "DIRECTLY", "IN", "FRONT,", "no", "columns", "or", "pillars", "dividing", "the", "window">> >>
              ELSE << >>) \o
             << <<"Bright", "natural", "light", "streaming", "in">> >>
        ELSE IF case = "entrance"
        THEN << <<"Interior", "photography", "of", "a", ToString(area_sqm), "sqm", "modern", "Korean", "apartment">>,
                   <<"Camera", "at", "the", "entrance,", "looking", "into", "the", "apartment">>,
                   <<"Living", "room", "visible", "in", "front", "or", "to", "the", "side">> >> \o
             (IF windows # << >>
              THEN << <<"Windows", "visible", "in", "the", "distance", "at", "the", "far", "end", "of", "the", "apartment">> >>
              ELSE << >>)
        ELSE IF case = "bedroom"
        THEN << <<"Interior", "photography", "of", "a", ToString(area_sqm), "sqm", "modern", "Korean", "apartment", "bedroom">>,
                   <<"Camera", "at", "the", "bedroom", "entrance,", "looking", "into", "the", "room">>,
                   <<"Bed", "visible", "in", "the", "center", "or", "against", "one", "wall">> >>
        ELSE << <<"Interior", "photography", "of", "a", ToString(area_sqm), "sqm", "modern", "Korean", "apartment", "bathroom">>,
                   <<"Camera", "at", "the", "bathroom", "entrance,", "looking", "inside">> >>

\* lines 747-847
GenerateSpatialPrompt(an, vp) ==
    LET viewpoint_lower == Lower(vp)
        area_sqm == IF Truthy(an.estimated_area) THEN AreaSqm(an.estimated_area) ELSE 100
        room_info == <<ToString(an.room_count), "bedrooms,", ToString(an.bathroom_count), "bathrooms">>
        room_positions == ExtractRoomPositions(an)
        windows == room_positions.windows
        case == ViewpointCase(viewpoint_lower)
    IN  IF case = "default" THEN ConvertFloorPlanToPrompt(an)
        ELSE Join(SpatialParts(case, area_sqm, windows) \o << <<"Apartment", "has">> \o room_info >>, ". ")

(***************************************************************************)
(* Inputs of _generate_spatial_prompt.                                     *)
(***************************************************************************)
Viewpoints ==
    { <<"ju", "bang", "(e)", "seo", " ", "geo", "sil", " ", "bo", "neun", " ", "si", "jeom">>,
      <<"K", "i", "t", "c", "h", "e", "n", " ", "t", "o", " ", "L", "i", "v", "i", "n", "g">>,
      <<"l", "i", "v", "i", "n", "g", " ", "t", "o", " ", "k", "i", "t", "c", "h", "e", "n">>,
      <<"geo", "sil", "(e)", "seo", " ", "ju", "bang">>,
      <<"t", "o", " ", "t", "h", "e", " ", "w", "i", "n", "d", "o", "w">>,
      <<"chang", "ga">>,
      <<"E", "n", "t", "r", "a", "n", "c", "e">>,
      <<"hyeon", "gwan">>,
      <<"b", "e", "d", "r", "o", "o", "m">>,
      <<"chim", "sil">>,
      <<"b", "a", "t", "h", "r", "o", "o", "m">>,
      <<"yok", "sil">>,
      <<"b", "a", "l", "c", "o", "n", "y">>,
      << >> }

\* plans whose kitchen and living-room centres lie in every relative position
DirectionElems ==
    { PlanElement("non_load_bearing_wall", <<"k", "i", "t", "c", "h", "e", "n">>, [x |-> 2, y |-> 2, width |-> 1, height |-> 1]),
      PlanElement("non_load_bearing_wall", <<"k", "i", "t", "c", "h", "e", "n">>, [x |-> 5, y |-> 1, width |-> 1, height |-> 1]),
      PlanElement("partition", <<"geo", "sil">>, [x |-> 2, y |-> 2, width |-> 1, height |-> 1]),
      PlanElement("partition", <<"geo", "sil">>, [x |-> 4, y |-> 4, width |-> 1, height |-> 1]),
      PlanElement("partition", <<"geo", "sil">>, [x |-> 0, y |-> 2, width |-> 1, height |-> 1]),
      PlanElement("partition", <<"geo", "sil">>, [x |-> 2, y |-> 0, width |-> 1, height |-> 1]),
      PlanElement("partition", <<"geo", "sil">>, [x |-> 6, y |-> 3, width |-> 1, height |-> 1]),
      PlanElement("partition", <<"geo", "sil">>, [x |-> 4, y |-> 0, width |-> 1, height |-> 1]) }

DirectionPlans ==
    { FloorPlanAnalysis(EmptyDict, es, << >>) : es \in SeqsUpTo(DirectionElems, MaxPlanElems) }

DirectionViewpoints ==
    { <<"k", "i", "t", "c", "h", "e", "n", " ", "t", "o", " ", "l", "i", "v", "i", "n", "g">>, << >> }

\* viewpoint texts served one after the other: every case in English and in
\* Korean, texts that name one room only, and texts with keywords of two cases
ViewpointTexts ==
    << <<"ju", "bang", "(e)", "seo", " ", "geo", "sil", " ", "bo", "neun", " ", "si", "jeom">>,
       <<"K", "i", "t", "c", "h", "e", "n", " ", "t", "o", " ", "L", "i", "v", "i", "n", "g">>,
       <<"l", "i", "v", "i", "n", "g", " ", "t", "o", " ", "k", "i", "t", "c", "h", "e", "n">>,
       <<"f", "r", "o", "m", " ", "L", "i", "v", "i", "n", "g", " ", "r", "o", "o", "m", " ", "t", "o", " ", "K", "i", "t", "c", "h", "e", "n">>,
       <<"geo", "sil", "(e)", "seo", " ", "ju", "bang">>,
       <<"geo", "sil", "(e)", "seo", " ", "k", "i", "t", "c", "h", "e", "n", " ", "a", "n", "d", " ", "l", "i", "v", "i", "n", "g">>,
       <<"k", "i", "t", "c", "h", "e", "n">>,
       <<"l", "i", "v", "i", "n", "g", " ", "r", "o", "o", "m">>,
       <<"ju", "bang">>,
       <<"t", "o", " ", "t", "h", "e", " ", "w", "i", "n", "d", "o", "w">>,
       <<"chang", "ga">>,
       <<"W", "I", "N", "D", "O", "W">>,
       <<"k", "i", "t", "c", "h", "e", "n", " ", "w", "i", "n", "d", "o", "w">>,
       <<"E", "n", "t", "r", "a", "n", "c", "e">>,
       <<"hyeon", "gwan">>,
       <<"b", "e", "d", "r", "o", "o", "m", " ", "e", "n", "t", "r", "a", "n", "c", "e">>,
       <<"b", "e", "d", "r", "o", "o", "m">>,
       <<"chim", "sil">>,
       <<"b", "e", "d", "r", "o", "o", "m", " ", "a", "n", "d", " ", "b", "a", "t", "h", "r", "o", "o", "m">>,
       <<"b", "a", "t", "h", "r", "o", "o", "m">>,
       <<"yok", "sil">>,
       <<"b", "a", "t", "h", "r", "o", "o", "m", " ", "w", "i", "n", "d", "o", "w">>,
       <<"b", "a", "l", "c", "o", "n", "y">>,
       << >> >>

ViewpointPlans ==
    { NoAnalysis,
      FloorPlanAnalysis(EmptyDict, <<PlanElement("window", <<"chang">>, [x |-> 5, y |-> 5, width |-> 20, height |-> 5])>>, << >>),
      FloorPlanAnalysis([estimated_area |-> 30, room_count |-> 3, bathroom_count |-> 2],
                        <<PlanElement("window", <<"chang", "1">>, [x |-> 5, y |-> 5, width |-> 20, height |-> 5]),
                          PlanElement("non_load_bearing_wall", <<"ju", "bang", " ", "byeok">>, [x |-> 60, y |-> 40, width |-> 4, height |-> 30]),
                          PlanElement("window", <<"chang", "2">>, [x |-> 40, width |-> 20, height |-> 5])>>, << >>) }

(***************************************************************************)
(* DesignerAgent._calculate_camera_hash                                    *)
(*                                                                         *)
(* The hashed text is a sequence of characters; a number is written by     *)
(* str().  hash() of a str is a 64-bit signed value that depends on a      *)
(* secret drawn when the interpreter starts: within one process it is a    *)
(* function of the string, and a new process answers anew.  A hash value   *)
(* is kept as its sign and the four 16-bit limbs of its magnitude, most    *)
(* significant first; a seed is kept as its sign and its two 16-bit limbs  *)
(* hi, lo (the number hi * 2^16 + lo), so that 2^32 is Base * Base.        *)
(***************************************************************************)
Digits == <<"0", "1", "2", "3", "4", "5", "6", "7", "8", "9">>

RECURSIVE StrNat(_)
StrNat(n) == IF n < 10 THEN <<Digits[n + 1]>> ELSE StrNat(n \div 10) \o <<Digits[(n % 10) + 1]>>

\* str(n) of an int
StrInt(n) == IF n < 0 THEN <<"-">> \o StrNat(0 - n) ELSE StrNat(n)

\* str(estimated_area): None, or the float of a whole number
StrOptionalFloat(opt) ==
    IF opt = NoNumber THEN <<"N", "o", "n", "e">> ELSE StrInt(opt[1]) \o <<".", "0">>

\* lines 727-730
RECURSIVE ElementsStr(_)
ElementsStr(elems) ==
    IF elems = << >> THEN << >>
    ELSE LET e == Head(elems)
             pos == e.position
         IN  e.label \o <<":">> \o StrInt(Get(pos, "x", 0)) \o <<":">> \o
             StrInt(Get(pos, "y", 0)) \o <<":">> \o ElementsStr(Tail(elems))

\* line 733
HashInput(an, vp) == ElementsStr(an.elements) \o vp \o StrOptionalFloat(an.estimated_area)

Base == 65536

HashValue(negative, m3, m2, m1, m0) == [negative |-> negative, limbs |-> <<m3, m2, m1, m0>>]

\* values hash() can answer: -5, 0x0001000200030004 and -(3 * 2^32)
HashValues ==
    { HashValue(TRUE, 0, 0, 0, 5), HashValue(FALSE, 1, 2, 3, 4), HashValue(TRUE, 0, 3, 0, 0) }

\* hash() that draws its secret anew at every call
StrHashPerCall(memo, s) == HashValues

\* hash(s) in a process that has answered memo so far
StrHash(memo, s) == IF s \in DOMAIN memo THEN {memo[s]} ELSE HashValues

\* the remainder that keeps the sign of the dividend
Mod2Pow32Truncating(h) ==
    [negative |-> h.negative /\ <<h.limbs[3], h.limbs[4]>> # <<0, 0>>,
     hi |-> h.limbs[3], lo |-> h.limbs[4]]

\* h % (2**32), the remainder with the sign of the divisor
Mod2Pow32(h) ==
    LET hi == h.limbs[3]
        lo == h.limbs[4]
    IN  IF ~h.negative \/ (hi = 0 /\ lo = 0)
        THEN [negative |-> FALSE, hi |-> hi, lo |-> lo]
        ELSE [negative |-> FALSE,
              hi |-> (Base - 1 - hi + (IF lo = 0 THEN 1 ELSE 0)) % Base,
              lo |-> (Base - lo) % Base]

\* line 734, for the value h that hash(hash_input) answered
CalculateCameraHash(h) == Mod2Pow32(h)

(***************************************************************************)
(* Inputs of _calculate_camera_hash.                                       *)
(***************************************************************************)
HashElems ==
    { PlanElement("window", <<"W">>, [x |-> 10, y |-> 20, width |-> 30, height |-> 5]),
      PlanElement("window", <<"V">>, [x |-> 10, y |-> 20, width |-> 30, height |-> 5]),
      PlanElement("window", <<"W">>, [x |-> 11, y |-> 20, width |-> 30, height |-> 5]),
      PlanElement("window", <<"W">>, [x |-> 10, y |-> 21, width |-> 30, height |-> 5]),
      PlanElement("window", <<"W">>, [x |-> 10, y |-> 20, width |-> 31, height |-> 5]),
      PlanElement("window", <<"W">>, [x |-> 10, y |-> 20, width |-> 30, height |-> 6]) }

HashInputPlans ==
    { FloorPlanAnalysis([estimated_area |-> 30], es, << >>) : es \in SeqsUpTo(HashElems, MaxHashElems) }

HashPlans ==
    { FloorPlanAnalysis(EmptyDict, << >>, << >>),
      FloorPlanAnalysis([estimated_area |-> 30],
          <<PlanElement("window", <<"W">>, [x |-> 10, y |-> 20, width |-> 30, height |-> 5])>>, << >>) }

HashViewpoints ==
    { <<"k", "i", "t", "c", "h", "e", "n", " ", "t", "o", " ", "l", "i", "v", "i", "n", "g">>,
      <<"ju", "bang", "(e)", "seo", " ", "geo", "sil">> }

(***************************************************************************)
(* DesignerAgent._generate_lineart_from_dwg                                *)
(*                                                                         *)
(* An Optional value is << >> for None and <<v>> for v.  A base64 string   *)
(* is << >> when it is "" and <<image>> when it encodes the image.  What a *)
(* call does is [raised, value]: it raises, or it returns value.  The      *)
(* scale is the exact fraction <<numerator, denominator>>; the datasets    *)
(* have no negative width or height, so both extents are >= 0.             *)
(***************************************************************************)
NoValue == << >>

Some(v) == <<v>>

Return(v) == [raised |-> FALSE, value |-> v]

Raised == [raised |-> TRUE, value |-> NoValue]

CanvasWidth == 1024

CanvasHeight == 768

Margin == 50

LineartKeys == <<"walls", "doors", "windows", "elements">>

Coordinates(item) == Get(item, "coordinates", EmptyDict)

\* the items of one key that have coordinates
RECURSIVE WithCoordinates(_)
WithCoordinates(items) ==
    IF items = << >> THEN << >>
    ELSE IF DOMAIN Coordinates(Head(items)) # {}
         THEN <<Coordinates(Head(items))>> \o WithCoordinates(Tail(items))
         ELSE WithCoordinates(Tail(items))

\* lines 415-427: all_coords
AllCoords(dwg_elements) ==
    LET of(key) == WithCoordinates(Get(dwg_elements, key, << >>))
        coords == of("walls") \o of("doors") \o of("windows") \o of("elements")
    IN  [i \in 1..Len(coords) |->
            <<Get(coords[i], "x", 0), Get(coords[i], "y", 0),
              Get(coords[i], "x", 0) + Get(coords[i], "width", 0),
              Get(coords[i], "y", 0) + Get(coords[i], "height", 0)>>]

\* lines 444-447: min(scale_x, scale_y) for positive extents
LineartScale(dwg_width, dwg_height) ==
    IF (CanvasWidth - 2 * Margin) * dwg_height <= (CanvasHeight - 2 * Margin) * dwg_width
    THEN <<CanvasWidth - 2 * Margin, dwg_width>>
    ELSE <<CanvasHeight - 2 * Margin, dwg_height>>

\* n * scale >= px
ScaledAtLeast(n, scale, px) == n * scale[1] >= px * scale[2]

\* lines 449-453: transform_coord.  A pixel coordinate is kept as its
\* numerator over the denominator of the scale.
TransformCoord(x, y, min_x, max_y_, scale) ==
    <<Margin * scale[2] + (x - min_x) * scale[1], Margin * scale[2] + (max_y_ - y) * scale[1]>>

\* lines 462-470, 481-486, 495-500: [left, top, right, bottom] of the outline
\* of one item
OuterBox(c, min_x, max_y_, scale) ==
    LET p1 == TransformCoord(Get(c, "x", 0), Get(c, "y", 0), min_x, max_y_, scale)
    IN  <<p1[1], p1[2] - Get(c, "height", 0) * scale[1],
          p1[1] + Get(c, "width", 0) * scale[1], p1[2]>>

\* line 501: the second line of a window, 2 pixels inside its outline
InnerBox(c, min_x, max_y_, scale) ==
    LET box == OuterBox(c, min_x, max_y_, scale)
    IN  <<box[1] + 2 * scale[2], box[2] + 2 * scale[2], box[3] - 2 * scale[2], box[4] - 2 * scale[2]>>

\* lines 455-497: the rectangles handed to ImageDraw.rectangle, each with
\* whether its second corner is right of and below its first
LineartRectangles(dwg_elements, scale, min_x, max_y_) ==
    LET walls == WithCoordinates(Get(dwg_elements, "walls", << >>))
        doors == WithCoordinates(Get(dwg_elements, "doors", << >>))
        windows == WithCoordinates(Get(dwg_elements, "windows", << >>))
        w(c) == Get(c, "width", 0)
        h(c) == Get(c, "height", 0)
        outer(kind, c) ==
            [kind |-> kind, coordinates |-> c, box |-> OuterBox(c, min_x, max_y_, scale),
             ordered |-> ScaledAtLeast(w(c), scale, 0) /\ ScaledAtLeast(h(c), scale, 0)]
        inner(c) ==
            [kind |-> "window_inner", coordinates |-> c, box |-> InnerBox(c, min_x, max_y_, scale),
             ordered |-> ScaledAtLeast(w(c), scale, 4) /\ ScaledAtLeast(h(c), scale, 4)]
    IN  [i \in 1..Len(walls) |-> outer("wall", walls[i])] \o
        [i \in 1..Len(doors) |-> outer("door", doors[i])] \o
        [i \in 1..(2 * Len(windows)) |->
            IF i % 2 = 1 THEN outer("window", windows[(i + 1) \div 2])
            ELSE inner(windows[i \div 2])]

\* lines 391-505.  rectangle_checks: the installed imaging library rejects a
\* rectangle whose second corner is left of or above its first
GenerateLineartFromDwg(dwg_elements, rectangle_checks) ==
    LET all_coords == AllCoords(dwg_elements)
        idx == 1..Len(all_coords)
        min_x == Min({ all_coords[i][1] : i \in idx })
        min_y == Min({ all_coords[i][2] : i \in idx })
        max_x == Max({ all_coords[i][3] : i \in idx })
        max_y_ == Max({ all_coords[i][4] : i \in idx })
        dwg_width == max_x - min_x
        dwg_height == max_y_ - min_y
        rects == LineartRectangles(dwg_elements, LineartScale(dwg_width, dwg_height), min_x, max_y_)
    IN  IF all_coords = << >> THEN Return(<< >>)
        ELSE IF dwg_width = 0 \/ dwg_height = 0 THEN Return(<< >>)
        ELSE IF rectangle_checks /\ \E i \in 1..Len(rects) : ~rects[i].ordered THEN Raised
        ELSE Return(<<[kind |-> "lineart", width |-> CanvasWidth, height |-> CanvasHeight,
                       scale |-> LineartScale(dwg_width, dwg_height), rectangles |-> rects]>>)

(***************************************************************************)
(* DesignerAgent._generate_perspective_depth_map: the drawing is a picture *)
(* of the viewpoint's case unless the imaging library fails.               *)
(***************************************************************************)
\* the chain of lines 893-1037: which picture a lower-cased viewpoint gets
DepthCase(viewpoint_lower) ==
    IF \/ Contains(viewpoint_lower, <<"k", "i", "t", "c", "h", "e", "n">>) /\ Contains(viewpoint_lower, <<"l", "i", "v", "i", "n", "g">>)
       \/ Contains(viewpoint_lower, <<"ju", "bang", "(e)", "seo">>)
    THEN "kitchen_to_living"
    ELSE IF \/ Contains(viewpoint_lower, <<"l", "i", "v", "i", "n", "g">>) /\ Contains(viewpoint_lower, <<"k", "i", "t", "c", "h", "e", "n">>)
            \/ Contains(viewpoint_lower, <<"geo", "sil", "(e)", "seo">>)
    THEN "living_to_kitchen"
    ELSE IF Contains(viewpoint_lower, <<"w", "i", "n", "d", "o", "w">>) \/ Contains(viewpoint_lower, <<"chang", "ga">>)
    THEN "window"
    ELSE "default"

\* lines 933-954 and 1023-1030: the bright rectangle of the window, [left, top,
\* right, bottom], when the picture has one
DepthWindowRect(case, windows, width, height) ==
    IF case = "kitchen_to_living"
    THEN IF windows # << >>
         THEN IF windows[1].width > 25 \/ windows[1].is_continuous
              THEN Some(<<width \div 5, height \div 3 + 20, width - width \div 5, height - 100>>)
              ELSE Some(<<width \div 3, height \div 3 + 30, width - width \div 3, height - 120>>)
         ELSE NoValue
    ELSE IF case = "window"
    THEN Some(<<width \div 10, height \div 4, width - width \div 10, height - 80>>)
    ELSE NoValue

GeneratePerspectiveDepthMap(an, vp, drawing_fails) ==
    IF drawing_fails THEN Raised
    ELSE Return(<<[kind |-> "depth", width |-> CanvasWidth, height |-> CanvasHeight,
                   case |-> DepthCase(Lower(vp)),
                   window_rect |-> DepthWindowRect(DepthCase(Lower(vp)), ExtractRoomPositions(an).windows,
                                                   CanvasWidth, CanvasHeight)]>>)

(***************************************************************************)
(* DesignerAgent.generate_interior_image                                   *)
(***************************************************************************)
\* a try block without its except clause
TryUncaught(res, fallback) == res

\* try: ... except Exception: the local keeps fallback
Try(res, fallback) == IF res.raised THEN Return(fallback) ELSE res

TruthyText(opt) == opt # NoValue /\ opt[1] # << >>

TruthyDict(opt) == opt # NoValue /\ DOMAIN opt[1] # {}

\* a or b
Or(a, b) == IF TruthyText(a) THEN a ELSE b

\* STYLE_PROMPTS["modern"] and ROOM_PROMPTS["living_room"]
DefaultStylePrompt ==
    <<"modern", "interior", "design,", "clean", "lines,", "neutral", "colors,", "contemporary",
      "furniture,", "minimalist", "decor,", "high-end", "finishes,", "white", "walls,", "sleek",
      "surfaces">> \o <<",">> \o
    <<"spacious", "living", "room,", "comfortable", "sofa,", "coffee", "table,", "entertainment",
      "center,", "area", "rug,", "accent", "lighting">>

DefaultNegativePrompt ==
    <<"blurry", "low quality", "distorted", "unrealistic",
      "cartoon", "anime", "sketch", "people",
      "text", "watermark", "floor plan", "blueprint",
      "diagram", "window frame in middle", "window mullions", "divided glass panes",
      "pillar in window", "column breaking window", "window with vertical divider", "split window",
      "segmented window", "multi-pane window">>

SingleWindowNegativePrompt ==
    <<"pillars in window", "columns breaking window", "divided window", "window with pillar",
      "mullions", "vertical bars in window", "window supports", "window posts",
      "structural divider in window">>

FewWindowsNegativePrompt ==
    <<"extra windows", "additional windows", "multiple windows", "many windows">>

\* lines 330-332
WindowCount(an) == Cardinality({ i \in 1..Len(an.elements) : an.elements[i].element_type = "window" })

\* the precedence turned round: a depth map wins over line art
ControlTypeDepthFirst(lineart_base64, depth_map_base64) ==
    IF TruthyText(depth_map_base64) THEN "depth"
    ELSE IF TruthyText(lineart_base64) THEN "lineart" ELSE None

\* line 369
ControlType(lineart_base64, depth_map_base64) ==
    IF TruthyText(lineart_base64) THEN "lineart"
    ELSE IF TruthyText(depth_map_base64) THEN "depth" ELSE None

\* lines 1159-1211 of _generate_with_replicate: the model and its input_data
ReplicateInput(prompt_, negative_prompt, depth_map_base64, seed, control_type) ==
    LET full_prompt ==
            <<"realistic", "interior", "design", "photograph,">> \o prompt_ \o
            <<",", "professional", "interior", "photography,", "8k", "uhd,", "highly", "detailed,", "architectural", "visualization">>
        base == IF TruthyText(depth_map_base64)
                THEN [prompt |-> full_prompt, negative_prompt |-> negative_prompt,
                      image |-> depth_map_base64[1]]
                ELSE [prompt |-> full_prompt, negative_prompt |-> negative_prompt,
                      width |-> CanvasWidth, height |-> CanvasHeight]
    IN  [model_name |-> IF TruthyText(depth_map_base64)
                        THEN IF control_type = "lineart" THEN "sdxl-controlnet-lineart"
                             ELSE "sdxl-controlnet-depth"
                        ELSE "sdxl",
         input_data |-> IF seed # NoValue THEN DictSet(base, "seed", seed[1]) ELSE base]

NoGenerated ==
    [outcome |-> "none", lineart_raised |-> FALSE, depth_raised |-> FALSE,
     lineart_base64 |-> NoValue, depth_map_base64 |-> NoValue, seed |-> NoValue,
     prompt |-> << >>, negative_prompt |-> << >>, control_image |-> NoValue,
     control_type |-> None, model_name |-> None, input_data |-> EmptyDict]

\* In the operators below env is what the surroundings answer during the
\* call: rectangle_checks and depth_fails (the imaging library), layout and
\* reference_style (the answers of the vision model); h is hash(hash_input).
HasAnalysis(req) == req.floor_plan_analysis # NoValue

HasViewpoint(req) == TruthyText(req.viewpoint_request)

\* line 268
LineartCall(req, env) ==
    IF TruthyDict(req.dwg_elements)
    THEN GenerateLineartFromDwg(req.dwg_elements[1], env.rectangle_checks)
    ELSE Return(<< >>)

\* lines 265-273: lineart_base64
LineartStep(req, env) ==
    IF TruthyDict(req.dwg_elements)
    THEN Try([LineartCall(req, env) EXCEPT !.value = Some(@)], NoValue)
    ELSE Return(NoValue)

\* lines 282-301: layout_description
LayoutDescription(req, env) ==
    IF HasAnalysis(req)
    THEN IF HasViewpoint(req)
         THEN GenerateSpatialPrompt(req.floor_plan_analysis[1], req.viewpoint_request[1])
         ELSE ConvertFloorPlanToPrompt(req.floor_plan_analysis[1])
    ELSE IF req.base_image THEN env.layout
    ELSE << >>

\* lines 275-315: style_prompt
StylePrompt(req, env) ==
    (IF LayoutDescription(req, env) # << >>
     THEN <<"Interior", "design", "of">> \o LayoutDescription(req, env) \o <<".", "Style:">>
     ELSE << >>) \o
    (IF req.style_prompt = << >> THEN DefaultStylePrompt ELSE req.style_prompt) \o
    (IF req.reference_image_urls /\ env.reference_style # << >>
     THEN <<",", "inspired", "by:">> \o env.reference_style
     ELSE << >>)

\* lines 317-343: negative_prompt
NegativePrompt(req) ==
    (IF TruthyText(req.negative_prompt) THEN req.negative_prompt[1] ELSE DefaultNegativePrompt) \o
    (IF HasAnalysis(req) /\ WindowCount(req.floor_plan_analysis[1]) = 1
     THEN SingleWindowNegativePrompt ELSE << >>) \o
    (IF HasAnalysis(req) /\ WindowCount(req.floor_plan_analysis[1]) <= 2
     THEN FewWindowsNegativePrompt ELSE << >>)

\* line 348
DepthCall(req, env) ==
    IF HasAnalysis(req) /\ HasViewpoint(req)
    THEN GeneratePerspectiveDepthMap(req.floor_plan_analysis[1], req.viewpoint_request[1],
                                     env.depth_fails)
    ELSE Return(<< >>)

\* lines 328-356: depth_map_base64
DepthStep(req, env) ==
    IF HasAnalysis(req) /\ HasViewpoint(req)
    THEN Try([DepthCall(req, env) EXCEPT !.value = Some(@)], NoValue)
    ELSE Return(NoValue)

\* lines 359-362: seed
Seed(req, h) ==
    IF HasAnalysis(req) /\ HasViewpoint(req) THEN Some(CalculateCameraHash(h)) ELSE NoValue

\* the locals of generate_interior_image when line 365 is reached
Locals(req, env, h) ==
    [NoGenerated EXCEPT
        !.lineart_raised = LineartCall(req, env).raised,
        !.depth_raised = DepthCall(req, env).raised,
        !.lineart_base64 = LineartStep(req, env).value,
        !.depth_map_base64 = DepthStep(req, env).value,
        !.seed = Seed(req, h),
        !.prompt = StylePrompt(req, env),
        !.negative_prompt = NegativePrompt(req)]

\* lines 365-382: the call of _generate_with_replicate
HandToReplicate(locals) ==
    LET control_image == Or(locals.lineart_base64, locals.depth_map_base64)
        control_type == ControlType(locals.lineart_base64, locals.depth_map_base64)
        handed == ReplicateInput(locals.prompt, locals.negative_prompt, control_image,
                                 locals.seed, control_type)
    IN  [locals EXCEPT
            !.outcome = "replicate",
            !.control_image = control_image,
            !.control_type = control_type,
            !.model_name = handed.model_name,
            !.input_data = handed.input_data]

\* lines 233-389
GenerateInteriorImage(req, api_key, env, h) ==
    IF LineartStep(req, env).raised
    THEN [NoGenerated EXCEPT !.outcome = "raised", !.lineart_raised = TRUE]
    ELSE IF DepthStep(req, env).raised
    THEN [NoGenerated EXCEPT !.outcome = "raised", !.depth_raised = TRUE,
                             !.lineart_raised = LineartCall(req, env).raised,
                             !.lineart_base64 = LineartStep(req, env).value]
    ELSE IF api_key
    THEN HandToReplicate(Locals(req, env, h))
    ELSE [Locals(req, env, h) EXCEPT !.outcome = "mockup", !.model_name = "mockup"]

(***************************************************************************)
(* Inputs of generate_interior_image.                                      *)
(***************************************************************************)
LineartWall(layer, x, y, width, height) ==
    [layer |-> layer, coordinates |-> [x |-> x, y |-> y, width |-> width, height |-> height]]

DwgElementSets ==
    { NoValue,
      Some(EmptyDict),
      Some([walls |-> <<[layer |-> <<"A", "-", "W", "A", "L", "L">>]>>, doors |-> << >>, windows |-> << >>]),
      Some([walls |-> <<LineartWall(<<"A", "-", "W", "A", "L", "L">>, 0, 0, 100, 0)>>]),
      Some([walls |-> <<LineartWall(<<"A", "-", "W", "a", "l", "l", "-", "L", "o", "a", "d">>, 0, 0, 100, 50)>>,
            doors |-> <<[coordinates |-> [x |-> 50, y |-> 0, width |-> 9, height |-> 2]]>>,
            windows |-> <<[coordinates |-> [x |-> 10, y |-> 0, width |-> 40, height |-> 3]]>>]),
      Some([walls |-> <<LineartWall(<<"A", "-", "W", "A", "L", "L">>, 0, 0, 100, 50)>>,
            windows |-> <<[coordinates |-> [x |-> 10, width |-> 40]]>>]),
      Some([elements |-> <<[coordinates |-> [x |-> 0, y |-> 0, width |-> 10, height |-> 10]]>>]),
      Some([walls |-> <<LineartWall(<<"A", "-", "W", "A", "L", "L">>, 0, 0, 10, 100)>>,
            doors |-> <<[coordinates |-> [x |-> 2, y |-> 0, width |-> 3, height |-> 8]]>>,
            windows |-> <<[coordinates |-> [x |-> 1, y |-> 90, width |-> 8, height |-> 10]]>>]),
      Some([walls |-> <<LineartWall(<<"A", "-", "W", "A", "L", "L">>, 0, 0, 100, 50)>>,
            windows |-> <<[coordinates |-> [x |-> 0, y |-> 10, height |-> 10]]>>]) }

ImagePlan ==
    FloorPlanAnalysis([estimated_area |-> 30, room_count |-> 3, bathroom_count |-> 2],
        <<PlanElement("window", <<"geo", "sil", " ", "chang">>, [x |-> 10, y |-> 40, width |-> 30, height |-> 5])>>,
        << >>)

ImageViewpoints ==
    { NoValue, Some(<< >>), Some(<<"k", "i", "t", "c", "h", "e", "n", " ", "t", "o", " ", "l", "i", "v", "i", "n", "g">>) }

\* the arguments that only shape the prompt texts: a floor-plan image, the
\* style prompt, the negative prompt, reference images
PromptArguments ==
    { [base_image |-> FALSE, style_prompt |-> << >>, negative_prompt |-> NoValue,
       reference_image_urls |-> FALSE],
      [base_image |-> TRUE, style_prompt |-> << >>, negative_prompt |-> NoValue,
       reference_image_urls |-> TRUE],
      [base_image |-> TRUE, style_prompt |-> <<"warm", "oak", "interior">>,
       negative_prompt |-> Some(<<"clutter">>), reference_image_urls |-> FALSE] }

ImageRequests ==
    { [dwg_elements |-> d, floor_plan_analysis |-> a, viewpoint_request |-> v,
       base_image |-> pa.base_image, style_prompt |-> pa.style_prompt,
       negative_prompt |-> pa.negative_prompt,
       reference_image_urls |-> pa.reference_image_urls] :
        d \in DwgElementSets, a \in {NoValue, Some(ImagePlan)}, v \in ImageViewpoints,
        pa \in PromptArguments }

Environments ==
    [rectangle_checks : BOOLEAN, depth_fails : BOOLEAN,
     layout : {<< >>, <<"two", "rooms", "and", "a", "balcony">>},
     reference_style : {<< >>, <<"pale", "wood">>}]

NoRequest ==
    [dwg_elements |-> NoValue, floor_plan_analysis |-> NoValue, viewpoint_request |-> NoValue,
     base_image |-> FALSE, style_prompt |-> << >>, negative_prompt |-> NoValue,
     reference_image_urls |-> FALSE]

ImageInit ==
    /\ replicate_api_key = FALSE
    /\ request = NoRequest
    /\ generated = NoGenerated

\* no string hashed yet, no call made yet
ViewInit ==
    /\ next_viewpoint = 1
    /\ depth_map = NoValue
    /\ seen = {}

HashInit ==
    /\ hash_memo = EmptyDict
    /\ run = 0
    /\ run_seeds = {}
    /\ first_seed = << >>
    /\ last_args = << >>
    /\ repeated = FALSE

HashInputInit ==
    /\ other = NoAnalysis
    /\ hash_input = << >>
    /\ other_input = << >>

(***************************************************************************)
(* ArchitectAgent._parse_json_response and validate_demolition_plan        *)
(*                                                                         *)
(* The text of a response is kept as what json.loads makes of the part the *)
(* two regular expressions cut out: text that is no JSON                   *)
(* (json |-> "invalid"), a JSON object (json |-> "object", its members in  *)
(* value, a member null being NoValue and a member v being <<v>>), or      *)
(* another JSON value (json |-> "array").  fenced tells whether the text   *)
(* came in a ``` code block.                                               *)
(***************************************************************************)
DemolitionValidation(is_safe, selected_elements, risk_level, structural_impact, recommendations, warnings_, estimated_demolition_cost) ==
    [is_safe |-> is_safe, selected_elements |-> selected_elements, risk_level |-> risk_level,
     structural_impact |-> structural_impact, recommendations |-> recommendations,
     warnings |-> warnings_, estimated_demolition_cost |-> estimated_demolition_cost]

\* lines 714-744: a dict, or whatever else json.loads returned
ParseJsonResponse(content) ==
    IF content.json = "invalid"
    THEN [kind |-> "dict", dict |-> [error |-> Some("JSON parse failed"), raw_content |-> Some(content)]]
    ELSE IF content.json = "object"
    THEN [kind |-> "dict", dict |-> content.value]
    ELSE [kind |-> "list", dict |-> EmptyDict]

\* result.get(k, default) of a parsed object
Member(d, k, default) == IF k \in DOMAIN d THEN (IF d[k] = NoValue THEN None ELSE d[k][1]) ELSE default

\* lines 583-594: the answer when the response could not be parsed, failing open
ParseErrorValidation(selected) ==
    DemolitionValidation(TRUE, selected, "low", "default validation result after an analysis error",
                         <<"consult an expert">>, <<"analysis error - manual review needed">>, None)

\* lines 596-604: the DemolitionValidation built from the parsed object; the
\* schema rejects is_safe = None
ParsedValidation(d, selected) ==
    IF "is_safe" \in DOMAIN d /\ d.is_safe = NoValue THEN Raised
    ELSE Return(DemolitionValidation(Member(d, "is_safe", FALSE),
                                     Member(d, "selected_elements", selected),
                                     Member(d, "risk_level", "low"),
                                     Member(d, "structural_impact", ""),
                                     Member(d, "recommendations", << >>),
                                     Member(d, "warnings", << >>),
                                     Member(d, "estimated_demolition_cost", None)))

\* lines 549-609.  api is what generate_content_async did: it raised, or it
\* returned the response whose text is api.value
ValidateDemolitionPlan(an, selected, api) ==
    IF api.raised THEN Raised
    ELSE IF ParseJsonResponse(api.value).kind # "dict" THEN Raised
    ELSE IF "error" \in DOMAIN ParseJsonResponse(api.value).dict THEN Return(ParseErrorValidation(selected))
    ELSE ParsedValidation(ParseJsonResponse(api.value).dict, selected)

(***************************************************************************)
(* Inputs of validate_demolition_plan.                                     *)
(***************************************************************************)
LabelWallLiving == <<"geo", "sil", " ", "byeok">>

LabelWallKitchen == <<"ju", "bang", " ", "byeok">>

LabelPillar == <<"gi", "dung">>

DemolitionAnalyses ==
    { NoAnalysis,
      FloorPlanAnalysis(EmptyDict,
          <<PlanElement("non_load_bearing_wall", LabelWallLiving, [x |-> 10, y |-> 10, width |-> 30, height |-> 2]),
            PlanElement("load_bearing_wall", LabelWallKitchen, [x |-> 60, y |-> 10, width |-> 2, height |-> 30]),
            PlanElement("non_load_bearing_wall", LabelWallLiving, [x |-> 10, y |-> 40, width |-> 30, height |-> 2]),
            PlanElement("pillar", LabelPillar, [x |-> 50, y |-> 50, width |-> 3, height |-> 3])>>, << >>) }

SelectedLabels ==
    { << >>, <<LabelWallLiving>>, <<LabelWallKitchen, LabelWallLiving>>, <<LabelPillar, LabelPillar>>,
      <<<<"chang">>>> }

ResponseObjects ==
    { EmptyDict,
      [is_safe |-> Some(TRUE)],
      [is_safe |-> Some(FALSE), risk_level |-> Some("high"), warnings |-> Some(<<"load-bearing wall selected">>)],
      [is_safe |-> NoValue],
      [risk_level |-> Some("medium")],
      [is_safe |-> Some(TRUE), selected_elements |-> Some(<<LabelWallLiving>>), estimated_demolition_cost |-> Some(150)],
      [error |-> Some("cannot analyse the plan")],
      [error |-> Some("cannot analyse the plan"), is_safe |-> Some(FALSE)] }

Contents ==
    { [fenced |-> f, json |-> "invalid", value |-> EmptyDict] : f \in BOOLEAN } \cup
    { [fenced |-> FALSE, json |-> "array", value |-> EmptyDict] } \cup
    { [fenced |-> f, json |-> "object", value |-> v] : f \in BOOLEAN, v \in ResponseObjects }

ApiAnswers == {Raised} \cup { Return(c) : c \in Contents }

NoValidation == Return(NoValue)

NoCleanSlate == EmptyDict

DemolitionInit ==
    /\ selected_element_labels = << >>
    /\ response = Return(NoValue)
    /\ validation = NoValidation
    /\ demolition_plan = NoValue
    /\ clean_slate = NoCleanSlate

(***************************************************************************)
(* ArchitectAgent.generate_clean_slate_visualization                       *)
(***************************************************************************)
\* lines 685-697: the dict appended for an element
CleanSlateEntry(element, state) ==
    [label |-> element.label, element_type |-> element.element_type,
     position |-> element.position, status |-> state]

\* the test that also spares the load-bearing walls
IsDemolishedUnlessLoadBearing(element, demolished_labels) ==
    element.label \in demolished_labels /\ element.element_type # "load_bearing_wall"

\* line 684
IsDemolished(element, demolished_labels) == element.label \in demolished_labels

\* lines 683-697: the loop from element i on; lists is <<remaining_elements, demolished_elements>>
RECURSIVE CleanSlateLoop(_, _, _, _)
CleanSlateLoop(elems, i, demolished_labels, lists) ==
    IF i > Len(elems) THEN lists
    ELSE IF IsDemolished(elems[i], demolished_labels)
    THEN CleanSlateLoop(elems, i + 1, demolished_labels, <<lists[1], Append(lists[2], CleanSlateEntry(elems[i], "demolished"))>>)
    ELSE CleanSlateLoop(elems, i + 1, demolished_labels, <<Append(lists[1], CleanSlateEntry(elems[i], "remaining")), lists[2]>>)

\* line 678: set(demolition_plan.selected_elements)
DemolishedLabels(plan) == { plan.selected_elements[i] : i \in 1..Len(plan.selected_elements) }

\* lines 699-712
CleanSlateDict(an, plan, lists) ==
    [original_elements_count |-> Len(an.elements),
     remaining_elements_count |-> Len(lists[1]),
     demolished_elements_count |-> Len(lists[2]),
     remaining_elements |-> lists[1],
     demolished_elements |-> lists[2],
     visualization_notes |-> <<"red: demolished", "blue: remaining", "grey: load-bearing wall">>,
     is_safe |-> plan.is_safe,
     risk_level |-> plan.risk_level]

\* lines 661-712
GenerateCleanSlateVisualization(an, plan) ==
    CleanSlateDict(an, plan, CleanSlateLoop(an.elements, 1, DemolishedLabels(plan), << <<>>, <<>> >>))

\* the demolition plans of the requests
DemolitionPlans ==
    { DemolitionValidation(safe, selected, risk, "", << >>, << >>, None) :
          safe \in BOOLEAN, selected \in SelectedLabels, risk \in {"low", "high"} }

(***************************************************************************)
(* DesignerAgent._generate_with_replicate                                  *)
(*                                                                         *)
(* The service at api.replicate.com is the environment: each request to it *)
(* either fails in transport (Raised) or is answered (Return).  The output *)
(* of a prediction is kept as [kind, items]: a list, a string (items holds *)
(* it), None, or another value that is true and cannot be sliced.          *)
(***************************************************************************)
MaxPolls == 36

\* lines 1162-1195: the model the request is sent to
ModelName(args) ==
    IF args.depth_map_base64 # NoValue
    THEN (IF args.control_type = "lineart" THEN "sdxl-controlnet-lineart" ELSE "sdxl-controlnet-depth")
    ELSE "sdxl"

\* lines 1258-1263
ReplicateSuccess(image_url, args) ==
    [success |-> TRUE, image_url |-> image_url, prompt_used |-> args.prompt, model |-> ModelName(args)]

\* lines 1269-1275
ReplicateFailure(error, args) ==
    [success |-> FALSE, error |-> error, prompt_used |-> args.prompt]

\* lines 1216-1232: TRUE when the prediction was created and its id read
PredictionStarted(answer) ==
    /\ ~answer.raised
    /\ answer.value.status_code = 201
    /\ answer.value.has_id

\* lines 1216-1232 and 1269: the error text when the prediction was not created
CreationError(answer) ==
    IF answer.raised THEN "transport error"
    ELSE IF answer.value.status_code # 201 THEN "Replicate API error"
    ELSE "KeyError: id"

\* the range that allows one more poll
RangeHasNextInclusive(i) == i <= MaxPolls

\* line 1236: for i in range(36), after i polls
RangeHasNext(i) == i < MaxPolls

\* lines 1252-1256
ImageUrl(output) ==
    IF output.kind = "list" /\ output.items # << >>
    THEN [kind |-> "str", items |-> <<output.items[1]>>]
    ELSE output

\* line 1257: image_url[:100] if image_url else 'None' can be evaluated
CanLogImageUrl(image_url) ==
    \/ image_url.kind = "none"
    \/ image_url.kind = "list"
    \/ image_url.kind = "str"

\* lines 1239-1265: TRUE when the poll ends the loop
PollIsFinal(answer) ==
    \/ answer.raised
    \/ "status" \notin DOMAIN answer.value
    \/ answer.value.status = "succeeded"
    \/ answer.value.status = "failed"

\* lines 1239-1265 and 1269-1275: what a poll that ends the loop returns
PollResult(answer, args) ==
    IF answer.raised THEN ReplicateFailure("transport error", args)
    ELSE IF "status" \notin DOMAIN answer.value THEN ReplicateFailure("KeyError: status", args)
    ELSE IF answer.value.status = "failed" THEN ReplicateFailure("Generation failed", args)
    ELSE IF CanLogImageUrl(ImageUrl(answer.value.output)) THEN ReplicateSuccess(ImageUrl(answer.value.output), args)
    ELSE ReplicateFailure("TypeError", args)

\* line 1245: the status read from an answered poll
ObservedStatus(answer, previous) ==
    IF answer.raised \/ "status" \notin DOMAIN answer.value THEN previous ELSE answer.value.status

(***************************************************************************)
(* Inputs and answers of _generate_with_replicate.                         *)
(***************************************************************************)
ReplicateArgs ==
    { [prompt |-> "modern living room", depth_map_base64 |-> NoValue, control_type |-> None],
      [prompt |-> "modern living room", depth_map_base64 |-> Some("png"), control_type |-> "lineart"],
      [prompt |-> "nordic kitchen", depth_map_base64 |-> Some("png"), control_type |-> "depth"] }

CreateAnswers ==
    {Raised} \cup { Return([status_code |-> c, has_id |-> b]) : c \in {201, 401}, b \in BOOLEAN }

NoOutput == [kind |-> "none", items |-> << >>]

Outputs ==
    { NoOutput,
      [kind |-> "list", items |-> <<"https://replicate.delivery/out-0.png", "https://replicate.delivery/out-1.png">>],
      [kind |-> "list", items |-> << >>],
      [kind |-> "str", items |-> <<"https://replicate.delivery/out.png">>],
      [kind |-> "other", items |-> << >>] }

PollAnswers ==
    {Raised, Return(EmptyDict)} \cup
    { Return([status |-> st, output |-> NoOutput]) : st \in {"starting", "processing", "failed", "canceled"} } \cup
    { Return([status |-> "succeeded", output |-> o]) : o \in Outputs }

NoReplicateArgs == [prompt |-> "", depth_map_base64 |-> NoValue, control_type |-> None]

NoReplicateResult == EmptyDict

ReplicateInit ==
    /\ replicate_args = NoReplicateArgs
    /\ polls = 0
    /\ status = None
    /\ replicate_result = NoReplicateResult

(***************************************************************************)
(* Actions of analyze_dwg_json.                                            *)
(***************************************************************************)
\* lines 311-322: the request arrives and the interpretation step answers
AnalyzeDwgJsonParse ==
    /\ pc = "idle"
    /\ \E dj \in DwgJsons, res \in Results :
          /\ dwg_json' = dj
          /\ result' = res
    /\ max_y' = 0
    /\ elements' = << >>
    /\ warnings' = << >>
    /\ inferred' = NoInference
    /\ pc' = "parsed"
    /\ ret' = NoAnalysis
    /\ UNCHANGED <<analysis, rooms, flip_pos, flip_orig, flips, promptVars, hashVars, hashInputVars, imageVars, viewVars, demolitionVars, replicateVars>>

\* lines 324-352: coordinate normalisation and collection of the warnings
AnalyzeDwgJsonNormalize ==
    /\ pc = "parsed"
    /\ max_y' = FindMaxY(dwg_json)
    /\ elements' = NormalizeElements(Get(result, "elements", << >>), FindMaxY(dwg_json))
    /\ warnings' = Get(result, "warnings", << >>) \o Get(result, "data_quality_notes", << >>)
    /\ pc' = "normalized"
    /\ UNCHANGED <<dwg_json, result, inferred, ret, analysis, rooms, flip_pos, flip_orig, flips, promptVars, hashVars, hashInputVars, imageVars, viewVars, demolitionVars, replicateVars>>

\* lines 354-374: outer-wall inference and the returned FloorPlanAnalysis
AnalyzeDwgJsonInfer ==
    /\ pc = "normalized"
    /\ LET inf == InferOuterWallsFromWindows(dwg_json, elements, max_y)
           elems == ExtendElements(elements, inf.walls)
           warns == ExtendWarnings(warnings, inf.walls, inf.warnings)
       IN  /\ inferred' = inf
           /\ elements' = elems
           /\ warnings' = warns
           /\ ret' = FloorPlanAnalysis(result, elems, warns)
    /\ pc' = "returned"
    /\ UNCHANGED <<dwg_json, result, max_y, analysis, rooms, flip_pos, flip_orig, flips, promptVars, hashVars, hashInputVars, imageVars, viewVars, demolitionVars, replicateVars>>

\* the caller has taken the FloorPlanAnalysis; the request's locals are gone
AnalyzeDwgJsonDone ==
    /\ pc = "returned"
    /\ pc' = "idle"
    /\ dwg_json' = [walls |-> << >>, doors |-> << >>, windows |-> << >>, elements |-> << >>]
    /\ result' = [elements |-> << >>]
    /\ max_y' = 0
    /\ elements' = << >>
    /\ warnings' = << >>
    /\ inferred' = NoInference
    /\ ret' = NoAnalysis
    /\ UNCHANGED <<analysis, rooms, flip_pos, flip_orig, flips, promptVars, hashVars, hashInputVars, imageVars, viewVars, demolitionVars, replicateVars>>

(***************************************************************************)
(* Actions of DesignerAgent.                                               *)
(***************************************************************************)
\* lines 635-721
ExtractRoomPositionsCall ==
    /\ pc = "idle"
    /\ \E an \in Plans :
          /\ analysis' = an
          /\ rooms' = ExtractRoomPositions(an)
    /\ pc' = "extracted"
    /\ UNCHANGED <<dwg_json, result, max_y, elements, warnings, inferred, ret,
                   flip_pos, flip_orig, flips, promptVars, hashVars, hashInputVars, imageVars, viewVars, demolitionVars, replicateVars>>

ExtractRoomPositionsDone ==
    /\ pc = "extracted"
    /\ pc' = "idle"
    /\ analysis' = NoAnalysis
    /\ rooms' = NoRooms
    /\ UNCHANGED <<dwg_json, result, max_y, elements, warnings, inferred, ret,
                   flip_pos, flip_orig, flips, promptVars, hashVars, hashInputVars, imageVars, viewVars, demolitionVars, replicateVars>>

\* lines 736-847
GenerateSpatialPromptCall ==
    /\ pc = "idle"
    /\ \E an \in Plans, vp \in Viewpoints :
          /\ analysis' = an
          /\ viewpoint' = vp
          /\ rooms' = ExtractRoomPositions(an)
          /\ direction' = Direction(ExtractRoomPositions(an))
          /\ prompt' = GenerateSpatialPrompt(an, vp)
    /\ pc' = "prompted"
    /\ UNCHANGED <<dwg_json, result, max_y, elements, warnings, inferred, ret,
                   flip_pos, flip_orig, flips, hashVars, hashInputVars, imageVars, viewVars, demolitionVars, replicateVars>>

GenerateSpatialPromptDone ==
    /\ pc = "prompted"
    /\ pc' = "idle"
    /\ analysis' = NoAnalysis
    /\ rooms' = NoRooms
    /\ viewpoint' = << >>
    /\ direction' = None
    /\ prompt' = << >>
    /\ UNCHANGED <<dwg_json, result, max_y, elements, warnings, inferred, ret,
                   flip_pos, flip_orig, flips, hashVars, hashInputVars, imageVars, viewVars, demolitionVars, replicateVars>>

Init ==
    /\ pc = "idle"
    /\ dwg_json = [walls |-> << >>, doors |-> << >>, windows |-> << >>, elements |-> << >>]
    /\ result = [elements |-> << >>]
    /\ max_y = 0
    /\ elements = << >>
    /\ warnings = << >>
    /\ inferred = NoInference
    /\ ret = NoAnalysis
    /\ analysis = NoAnalysis
    /\ rooms = NoRooms
    /\ flip_pos = ZeroPosition
    /\ flip_orig = ZeroPosition
    /\ flips = 0
    /\ viewpoint = << >>
    /\ prompt = << >>
    /\ direction = None
    /\ HashInit
    /\ ViewInit
    /\ DemolitionInit
    /\ ReplicateInit
    /\ HashInputInit
    /\ ImageInit

Next ==
    \/ AnalyzeDwgJsonParse
    \/ AnalyzeDwgJsonNormalize
    \/ AnalyzeDwgJsonInfer
    \/ AnalyzeDwgJsonDone
    \/ ExtractRoomPositionsCall
    \/ ExtractRoomPositionsDone
    \/ GenerateSpatialPromptCall
    \/ GenerateSpatialPromptDone

Spec == Init /\ [][Next]_vars

(***************************************************************************)
(* The vertical flip of lines 334-337 applied repeatedly to one position   *)
(* with the same max_y.                                                    *)
(***************************************************************************)
FlipPositions ==
    { [x |-> 0, y |-> y, width |-> 1, height |-> h] :
        y \in (0 - MaxFlipCoord)..MaxFlipCoord, h \in 0..MaxFlipCoord } \cup
    { [x |-> 0, width |-> 1, height |-> h] : h \in 0..MaxFlipCoord }

InitFlip ==
    /\ pc = "flip"
    /\ dwg_json = [walls |-> << >>, doors |-> << >>, windows |-> << >>, elements |-> << >>]
    /\ result = [elements |-> << >>]
    /\ max_y \in 0..MaxFlipCoord
    /\ elements = << >>
    /\ warnings = << >>
    /\ inferred = NoInference
    /\ ret = NoAnalysis
    /\ analysis = NoAnalysis
    /\ rooms = NoRooms
    /\ flip_orig \in FlipPositions
    /\ flip_pos = flip_orig
    /\ flips = 0
    /\ viewpoint = << >>
    /\ prompt = << >>
    /\ direction = None
    /\ HashInit
    /\ ViewInit
    /\ DemolitionInit
    /\ ReplicateInit
    /\ HashInputInit
    /\ ImageInit

FlipAgain ==
    /\ pc = "flip"
    /\ flips < MaxFlips
    /\ flip_pos' = NormalizePosition(flip_pos, max_y)
    /\ flips' = flips + 1
    /\ UNCHANGED <<pc, dwg_json, result, max_y, elements, warnings, inferred, ret,
                   analysis, rooms, flip_orig, promptVars, hashVars, hashInputVars, imageVars, viewVars, demolitionVars, replicateVars>>

SpecFlip == InitFlip /\ [][FlipAgain]_vars

(***************************************************************************)
(* _calculate_camera_hash called again and again while the service process *)
(* is restarted now and then.                                              *)
(***************************************************************************)
InitHash ==
    /\ pc = "running"
    /\ dwg_json = [walls |-> << >>, doors |-> << >>, windows |-> << >>, elements |-> << >>]
    /\ result = [elements |-> << >>]
    /\ max_y = 0
    /\ elements = << >>
    /\ warnings = << >>
    /\ inferred = NoInference
    /\ ret = NoAnalysis
    /\ analysis = NoAnalysis
    /\ rooms = NoRooms
    /\ flip_pos = ZeroPosition
    /\ flip_orig = ZeroPosition
    /\ flips = 0
    /\ viewpoint = << >>
    /\ prompt = << >>
    /\ direction = None
    /\ HashInit
    /\ ViewInit
    /\ DemolitionInit
    /\ ReplicateInit
    /\ HashInputInit
    /\ ImageInit

\* lines 723-734
CalculateCameraHashCall ==
    /\ pc = "running"
    /\ \E an \in HashPlans, vp \in HashViewpoints :
          \E h \in StrHash(hash_memo, HashInput(an, vp)) :
              LET seed == CalculateCameraHash(h)
              IN  /\ hash_memo' = DictSet(hash_memo, HashInput(an, vp), h)
                  /\ run_seeds' = run_seeds \cup {<<an, vp, seed>>}
                  /\ first_seed' = IF run = 0 /\ first_seed = << >>
                                   THEN <<an, vp, seed>> ELSE first_seed
                  /\ repeated' = (repeated \/
                                    (/\ last_args # <<an, vp>>
                                     /\ \E c \in run_seeds : c[1] = an /\ c[2] = vp))
                  /\ last_args' = <<an, vp>>
    /\ UNCHANGED <<pc, dwg_json, result, max_y, elements, warnings, inferred, ret,
                   analysis, rooms, flip_pos, flip_orig, flips, promptVars,
                   run, hashInputVars, imageVars, viewVars, demolitionVars, replicateVars>>

\* the service process ends and a new one starts: a new hash secret
ProcessRestart ==
    /\ pc = "running"
    /\ run < MaxRestarts
    /\ run' = run + 1
    /\ hash_memo' = EmptyDict
    /\ run_seeds' = {}
    /\ last_args' = << >>
    /\ repeated' = FALSE
    /\ UNCHANGED <<pc, dwg_json, result, max_y, elements, warnings, inferred, ret,
                   analysis, rooms, flip_pos, flip_orig, flips, promptVars,
                   first_seed, hashInputVars, imageVars, viewVars, demolitionVars, replicateVars>>

NextHash ==
    \/ CalculateCameraHashCall
    \/ ProcessRestart

SpecHash == InitHash /\ [][NextHash]_vars

(***************************************************************************)
(* The hashed strings of two floor plans, side by side.                    *)
(***************************************************************************)
InitHashInput ==
    /\ pc = "hash_input"
    /\ dwg_json = [walls |-> << >>, doors |-> << >>, windows |-> << >>, elements |-> << >>]
    /\ result = [elements |-> << >>]
    /\ max_y = 0
    /\ elements = << >>
    /\ warnings = << >>
    /\ inferred = NoInference
    /\ ret = NoAnalysis
    /\ analysis \in HashInputPlans
    /\ rooms = NoRooms
    /\ flip_pos = ZeroPosition
    /\ flip_orig = ZeroPosition
    /\ flips = 0
    /\ viewpoint \in HashViewpoints
    /\ prompt = << >>
    /\ direction = None
    /\ HashInit
    /\ ViewInit
    /\ DemolitionInit
    /\ ReplicateInit
    /\ other \in HashInputPlans
    /\ hash_input = << >>
    /\ other_input = << >>
    /\ ImageInit

\* lines 727-733, for both plans
HashInputCall ==
    /\ pc = "hash_input"
    /\ pc' = "hash_input_done"
    /\ hash_input' = HashInput(analysis, viewpoint)
    /\ other_input' = HashInput(other, viewpoint)
    /\ UNCHANGED <<dwg_json, result, max_y, elements, warnings, inferred, ret,
                   analysis, rooms, flip_pos, flip_orig, flips, promptVars,
                   hashVars, other, imageVars, viewVars, demolitionVars, replicateVars>>

SpecHashInput == InitHashInput /\ [][HashInputCall]_vars

(***************************************************************************)
(* generate_interior_image served again and again by one process.          *)
(***************************************************************************)
InitImage ==
    /\ pc = "ready"
    /\ dwg_json = [walls |-> << >>, doors |-> << >>, windows |-> << >>, elements |-> << >>]
    /\ result = [elements |-> << >>]
    /\ max_y = 0
    /\ elements = << >>
    /\ warnings = << >>
    /\ inferred = NoInference
    /\ ret = NoAnalysis
    /\ analysis = NoAnalysis
    /\ rooms = NoRooms
    /\ flip_pos = ZeroPosition
    /\ flip_orig = ZeroPosition
    /\ flips = 0
    /\ viewpoint = << >>
    /\ prompt = << >>
    /\ direction = None
    /\ HashInit
    /\ ViewInit
    /\ DemolitionInit
    /\ ReplicateInit
    /\ HashInputInit
    /\ replicate_api_key \in BOOLEAN
    /\ request = NoRequest
    /\ generated = NoGenerated

\* lines 233-389
GenerateInteriorImageCall ==
    /\ pc = "ready"
    /\ \E req \in ImageRequests, env \in Environments :
          LET hashes == req.floor_plan_analysis # NoValue /\ TruthyText(req.viewpoint_request)
              s == IF hashes
                   THEN HashInput(req.floor_plan_analysis[1], req.viewpoint_request[1])
                   ELSE << >>
          IN  \E h \in (IF hashes THEN StrHash(hash_memo, s) ELSE {HashValue(FALSE, 0, 0, 0, 0)}) :
                  /\ request' = req
                  /\ generated' = GenerateInteriorImage(req, replicate_api_key, env, h)
                  /\ hash_memo' = IF hashes THEN DictSet(hash_memo, s, h) ELSE hash_memo
    /\ pc' = "generated"
    /\ UNCHANGED <<dwg_json, result, max_y, elements, warnings, inferred, ret,
                   analysis, rooms, flip_pos, flip_orig, flips, promptVars,
                   run, run_seeds, first_seed, last_args, repeated, hashInputVars,
                   replicate_api_key, viewVars, demolitionVars, replicateVars>>

\* the caller has the answer
GenerateInteriorImageDone ==
    /\ pc = "generated"
    /\ pc' = "ready"
    /\ request' = NoRequest
    /\ generated' = NoGenerated
    /\ UNCHANGED <<dwg_json, result, max_y, elements, warnings, inferred, ret,
                   analysis, rooms, flip_pos, flip_orig, flips, promptVars,
                   hashVars, hashInputVars, replicate_api_key, viewVars, demolitionVars, replicateVars>>

NextImage ==
    \/ GenerateInteriorImageCall
    \/ GenerateInteriorImageDone

SpecImage == InitImage /\ [][NextImage]_vars

(***************************************************************************)
(* _generate_spatial_prompt on plans whose rooms lie in every relative     *)
(* position.                                                               *)
(***************************************************************************)
InitDirection ==
    /\ pc = "direction"
    /\ dwg_json = [walls |-> << >>, doors |-> << >>, windows |-> << >>, elements |-> << >>]
    /\ result = [elements |-> << >>]
    /\ max_y = 0
    /\ elements = << >>
    /\ warnings = << >>
    /\ inferred = NoInference
    /\ ret = NoAnalysis
    /\ analysis \in DirectionPlans
    /\ rooms = NoRooms
    /\ flip_pos = ZeroPosition
    /\ flip_orig = ZeroPosition
    /\ flips = 0
    /\ viewpoint \in DirectionViewpoints
    /\ prompt = << >>
    /\ direction = None
    /\ HashInit
    /\ ViewInit
    /\ DemolitionInit
    /\ ReplicateInit
    /\ HashInputInit
    /\ ImageInit

\* lines 736-847
DirectionCall ==
    /\ pc = "direction"
    /\ pc' = "directed"
    /\ rooms' = ExtractRoomPositions(analysis)
    /\ direction' = Direction(ExtractRoomPositions(analysis))
    /\ prompt' = GenerateSpatialPrompt(analysis, viewpoint)
    /\ UNCHANGED <<dwg_json, result, max_y, elements, warnings, inferred, ret,
                   analysis, flip_pos, flip_orig, flips, viewpoint,
                   hashVars, hashInputVars, imageVars, viewVars, demolitionVars, replicateVars>>

SpecDirection == InitDirection /\ [][DirectionCall]_vars

(***************************************************************************)
(* _generate_spatial_prompt and _generate_perspective_depth_map on one     *)
(* floor plan, for one viewpoint text after the other.                     *)
(***************************************************************************)
InitViewpoint ==
    /\ pc = "view"
    /\ dwg_json = [walls |-> << >>, doors |-> << >>, windows |-> << >>, elements |-> << >>]
    /\ result = [elements |-> << >>]
    /\ max_y = 0
    /\ elements = << >>
    /\ warnings = << >>
    /\ inferred = NoInference
    /\ ret = NoAnalysis
    /\ analysis \in ViewpointPlans
    /\ rooms = NoRooms
    /\ flip_pos = ZeroPosition
    /\ flip_orig = ZeroPosition
    /\ flips = 0
    /\ viewpoint = << >>
    /\ prompt = << >>
    /\ direction = None
    /\ HashInit
    /\ ViewInit
    /\ DemolitionInit
    /\ ReplicateInit
    /\ HashInputInit
    /\ ImageInit

\* lines 736-847
ViewpointCall ==
    /\ pc = "view"
    /\ next_viewpoint <= Len(ViewpointTexts)
    /\ pc' = "viewed"
    /\ viewpoint' = ViewpointTexts[next_viewpoint]
    /\ rooms' = ExtractRoomPositions(analysis)
    /\ direction' = Direction(ExtractRoomPositions(analysis))
    /\ prompt' = GenerateSpatialPrompt(analysis, ViewpointTexts[next_viewpoint])
    /\ UNCHANGED <<dwg_json, result, max_y, elements, warnings, inferred, ret,
                   analysis, flip_pos, flip_orig, flips,
                   hashVars, hashInputVars, imageVars, viewVars, demolitionVars, replicateVars>>

\* lines 849-1048
DepthMapCall ==
    /\ pc = "viewed"
    /\ pc' = "drawn"
    /\ depth_map' = GeneratePerspectiveDepthMap(analysis, viewpoint, FALSE).value
    /\ UNCHANGED <<dwg_json, result, max_y, elements, warnings, inferred, ret,
                   analysis, rooms, flip_pos, flip_orig, flips, promptVars,
                   hashVars, hashInputVars, imageVars, next_viewpoint, seen, demolitionVars, replicateVars>>

ViewpointDone ==
    /\ pc = "drawn"
    /\ pc' = "view"
    /\ seen' = seen \cup {[viewpoint |-> viewpoint, prompt |-> prompt, depth_map |-> depth_map]}
    /\ next_viewpoint' = next_viewpoint + 1
    /\ rooms' = NoRooms
    /\ viewpoint' = << >>
    /\ direction' = None
    /\ prompt' = << >>
    /\ depth_map' = NoValue
    /\ UNCHANGED <<dwg_json, result, max_y, elements, warnings, inferred, ret,
                   analysis, flip_pos, flip_orig, flips,
                   hashVars, hashInputVars, imageVars, demolitionVars, replicateVars>>

NextViewpoint ==
    \/ ViewpointCall
    \/ DepthMapCall
    \/ ViewpointDone

SpecViewpoint == InitViewpoint /\ [][NextViewpoint]_vars

(***************************************************************************)
(* The demolition requests of the service: validate_demolition_plan and    *)
(* generate_clean_slate_visualization.                                     *)
(***************************************************************************)
InitDemolition ==
    /\ pc = "demolition"
    /\ dwg_json = [walls |-> << >>, doors |-> << >>, windows |-> << >>, elements |-> << >>]
    /\ result = [elements |-> << >>]
    /\ max_y = 0
    /\ elements = << >>
    /\ warnings = << >>
    /\ inferred = NoInference
    /\ ret = NoAnalysis
    /\ analysis = NoAnalysis
    /\ rooms = NoRooms
    /\ flip_pos = ZeroPosition
    /\ flip_orig = ZeroPosition
    /\ flips = 0
    /\ viewpoint = << >>
    /\ prompt = << >>
    /\ direction = None
    /\ HashInit
    /\ ViewInit
    /\ DemolitionInit
    /\ ReplicateInit
    /\ HashInputInit
    /\ ImageInit

\* lines 549-609
ValidateDemolitionPlanCall ==
    /\ pc = "demolition"
    /\ \E an \in DemolitionAnalyses, selected \in SelectedLabels, api \in ApiAnswers :
          /\ analysis' = an
          /\ selected_element_labels' = selected
          /\ response' = api
          /\ validation' = ValidateDemolitionPlan(an, selected, api)
    /\ pc' = "validated"
    /\ UNCHANGED <<dwg_json, result, max_y, elements, warnings, inferred, ret,
                   rooms, flip_pos, flip_orig, flips, promptVars,
                   hashVars, hashInputVars, imageVars, viewVars, demolition_plan, clean_slate, replicateVars>>

ValidateDemolitionPlanDone ==
    /\ pc = "validated"
    /\ pc' = "demolition"
    /\ analysis' = NoAnalysis
    /\ selected_element_labels' = << >>
    /\ response' = Return(NoValue)
    /\ validation' = NoValidation
    /\ UNCHANGED <<dwg_json, result, max_y, elements, warnings, inferred, ret,
                   rooms, flip_pos, flip_orig, flips, promptVars,
                   hashVars, hashInputVars, imageVars, viewVars, demolition_plan, clean_slate, replicateVars>>

\* routes.py line 197: the request arrives
CleanSlateCall ==
    /\ pc = "demolition"
    /\ \E an \in DemolitionAnalyses, plan \in DemolitionPlans :
          /\ analysis' = an
          /\ demolition_plan' = Some(plan)
    /\ pc' = "clean_slate"
    /\ UNCHANGED <<dwg_json, result, max_y, elements, warnings, inferred, ret,
                   rooms, flip_pos, flip_orig, flips, promptVars,
                   hashVars, hashInputVars, imageVars, viewVars,
                   selected_element_labels, response, validation, clean_slate, replicateVars>>

\* lines 661-712
GenerateCleanSlateVisualizationCall ==
    /\ pc = "clean_slate"
    /\ clean_slate' = GenerateCleanSlateVisualization(analysis, demolition_plan[1])
    /\ pc' = "visualized"
    /\ UNCHANGED <<dwg_json, result, max_y, elements, warnings, inferred, ret, analysis,
                   rooms, flip_pos, flip_orig, flips, promptVars,
                   hashVars, hashInputVars, imageVars, viewVars,
                   selected_element_labels, response, validation, demolition_plan, replicateVars>>

CleanSlateDone ==
    /\ pc = "visualized"
    /\ pc' = "demolition"
    /\ analysis' = NoAnalysis
    /\ demolition_plan' = NoValue
    /\ clean_slate' = NoCleanSlate
    /\ UNCHANGED <<dwg_json, result, max_y, elements, warnings, inferred, ret,
                   rooms, flip_pos, flip_orig, flips, promptVars,
                   hashVars, hashInputVars, imageVars, viewVars,
                   selected_element_labels, response, validation, replicateVars>>

NextDemolition ==
    \/ ValidateDemolitionPlanCall
    \/ ValidateDemolitionPlanDone
    \/ CleanSlateCall
    \/ GenerateCleanSlateVisualizationCall
    \/ CleanSlateDone

SpecDemolition == InitDemolition /\ [][NextDemolition]_vars

(***************************************************************************)
(* The image generation at Replicate: _generate_with_replicate.            *)
(***************************************************************************)
InitReplicate ==
    /\ pc = "replicate"
    /\ dwg_json = [walls |-> << >>, doors |-> << >>, windows |-> << >>, elements |-> << >>]
    /\ result = [elements |-> << >>]
    /\ max_y = 0
    /\ elements = << >>
    /\ warnings = << >>
    /\ inferred = NoInference
    /\ ret = NoAnalysis
    /\ analysis = NoAnalysis
    /\ rooms = NoRooms
    /\ flip_pos = ZeroPosition
    /\ flip_orig = ZeroPosition
    /\ flips = 0
    /\ viewpoint = << >>
    /\ prompt = << >>
    /\ direction = None
    /\ HashInit
    /\ ViewInit
    /\ DemolitionInit
    /\ ReplicateInit
    /\ HashInputInit
    /\ ImageInit

\* lines 1155-1232: the request is built and the prediction created
GenerateWithReplicateCall ==
    /\ pc = "replicate"
    /\ \E args \in ReplicateArgs, answer \in CreateAnswers :
          /\ replicate_args' = args
          /\ IF PredictionStarted(answer)
             THEN /\ pc' = "polling"
                  /\ replicate_result' = NoReplicateResult
             ELSE /\ pc' = "returned"
                  /\ replicate_result' = ReplicateFailure(CreationError(answer), args)
    /\ polls' = 0
    /\ status' = None
    /\ UNCHANGED <<dwg_json, result, max_y, elements, warnings, inferred, ret, analysis,
                   rooms, flip_pos, flip_orig, flips, promptVars,
                   hashVars, hashInputVars, imageVars, viewVars, demolitionVars>>

\* lines 1236-1265: one round of the loop
PollStatus ==
    /\ pc = "polling"
    /\ RangeHasNext(polls)
    /\ polls' = polls + 1
    /\ \E answer \in PollAnswers :
          /\ status' = ObservedStatus(answer, status)
          /\ IF PollIsFinal(answer)
             THEN /\ pc' = "returned"
                  /\ replicate_result' = PollResult(answer, replicate_args)
             ELSE /\ pc' = "polling"
                  /\ replicate_result' = replicate_result
    /\ UNCHANGED <<dwg_json, result, max_y, elements, warnings, inferred, ret, analysis,
                   rooms, flip_pos, flip_orig, flips, promptVars,
                   hashVars, hashInputVars, imageVars, viewVars, demolitionVars, replicate_args>>

\* lines 1267-1275: the loop ran out
PollTimeout ==
    /\ pc = "polling"
    /\ ~RangeHasNext(polls)
    /\ pc' = "returned"
    /\ replicate_result' = ReplicateFailure("Generation timeout (3 minutes)", replicate_args)
    /\ UNCHANGED <<dwg_json, result, max_y, elements, warnings, inferred, ret, analysis,
                   rooms, flip_pos, flip_orig, flips, promptVars,
                   hashVars, hashInputVars, imageVars, viewVars, demolitionVars,
                   replicate_args, polls, status>>

GenerateWithReplicateDone ==
    /\ pc = "returned"
    /\ pc' = "replicate"
    /\ replicate_args' = NoReplicateArgs
    /\ polls' = 0
    /\ status' = None
    /\ replicate_result' = NoReplicateResult
    /\ UNCHANGED <<dwg_json, result, max_y, elements, warnings, inferred, ret, analysis,
                   rooms, flip_pos, flip_orig, flips, promptVars,
                   hashVars, hashInputVars, imageVars, viewVars, demolitionVars>>

NextReplicate ==
    \/ GenerateWithReplicateCall
    \/ PollStatus
    \/ PollTimeout
    \/ GenerateWithReplicateDone

SpecReplicate == InitReplicate /\ [][NextReplicate]_vars

\* every await of the loop is bounded (sleep of 5 s, client timeout of 180 s),
\* so a started round of the loop is finished
SpecReplicateFair == SpecReplicate /\ WF_vars(PollStatus) /\ WF_vars(PollTimeout)

(***************************************************************************)
(* Properties.                                                             *)
(***************************************************************************)
RawField(item, k) == Get(Get(item, "coordinates", EmptyDict), k, 0)

RawWindows == dwg_json.windows

RawWalls == dwg_json.walls

MinWindowY == Min({ RawField(RawWindows[i], "y") : i \in 1..Len(RawWindows) })

WallAtOrAbove ==
    \E i \in 1..Len(RawWalls) : RawField(RawWalls[i], "y") <= MinWindowY

OuterRow == { i \in 1..Len(RawWindows) : RawField(RawWindows[i], "y") = MinWindowY }

Interpreted == Get(result, "elements", << >>)

InterpretedWarnings ==
    Len(Get(result, "warnings", << >>)) + Len(Get(result, "data_quality_notes", << >>))

\* the indices of the returned elements that inference added
AddedByInference == (Len(Interpreted) + 1)..Len(ret.elements)

InferenceCase == Len(RawWindows) >= 1 /\ ~WallAtOrAbove

\* C1: with at least one window and no wall with y <= min_window_y, exactly one
\* wall is added; its x is the smallest x of the windows with y = min_window_y,
\* its width is the largest x+width of those windows minus that x; and at least
\* one warning is appended to the result's warnings.
C1_OneWallSpansOuterRow ==
    (pc = "returned" /\ InferenceCase) =>
        /\ Len(ret.elements) = Len(Interpreted) + 1
        /\ Len(inferred.walls) = 1
        /\ LET wall == ret.elements[Len(ret.elements)]
               lo == Min({ RawField(RawWindows[i], "x") : i \in OuterRow })
               hi == Max({ RawField(RawWindows[i], "x") + RawField(RawWindows[i], "width") :
                           i \in OuterRow })
           IN  /\ wall = inferred.walls[1]
               /\ wall.position.x = lo
               /\ wall.position.width = hi - lo
        /\ Len(ret.warnings) >= InterpretedWarnings + 1

C1_Witness ==
    /\ pc = "returned"
    /\ InferenceCase
    /\ Cardinality(OuterRow) = 2
    /\ RawField(RawWindows[1], "x") # RawField(RawWindows[2], "x")
    /\ Len(ret.elements) = Len(Interpreted) + 1
    /\ Len(Interpreted) >= 1

\* C2: with zero windows, or with a wall whose y <= min_window_y, inference
\* returns no wall and no warning, and the result's elements and warnings are
\* the ones held before inference.
C2_NoInference ==
    [][ (pc = "normalized" /\ (Len(RawWindows) = 0 \/ WallAtOrAbove)) =>
            /\ inferred'.walls = << >>
            /\ inferred'.warnings = << >>
            /\ elements' = elements
            /\ warnings' = warnings
            /\ ret'.elements = elements
            /\ ret'.warnings = warnings ]_vars

C2_Witness ==
    /\ pc = "returned"
    /\ Len(RawWindows) >= 1
    /\ WallAtOrAbove
    /\ \E i \in 1..Len(RawWalls) : RawField(RawWalls[i], "y") = MinWindowY
    /\ inferred.walls = << >>
    /\ Len(ret.elements) >= 1
    /\ Len(ret.warnings) >= 1

\* C3: every wall produced by outer-wall inference has type load_bearing_wall,
\* is_demolishable = false, demolition_risk = "high" and height 20.
C3_InferredWallFields ==
    pc = "returned" =>
        \A i \in AddedByInference :
            /\ ret.elements[i].element_type = "load_bearing_wall"
            /\ ret.elements[i].is_demolishable = FALSE
            /\ ret.elements[i].demolition_risk = "high"
            /\ ret.elements[i].position.height = 20

C3_Witness ==
    /\ pc = "returned"
    /\ AddedByInference # {}
    /\ max_y > 0
    /\ Len(Interpreted) = MaxElems

\* C4: the confidence of an inferred wall is strictly lower than the confidence
\* of every directly detected element of the same result, the default
\* confidence of an element without a confidence field included.
C4_InferredBelowDetected ==
    pc = "returned" =>
        \A i \in AddedByInference : \A j \in 1..Len(Interpreted) :
            ret.elements[i].confidence < ret.elements[j].confidence

\* C5: inference is append-only: the elements built from the interpreted input
\* stay an unchanged prefix of the returned elements, and every inferred wall
\* comes after that prefix.
C5_AppendOnly ==
    [][ pc = "normalized" =>
            /\ Len(elements') = Len(elements) + Len(inferred'.walls)
            /\ SubSeq(elements', 1, Len(elements)) = elements
            /\ SubSeq(elements', Len(elements) + 1, Len(elements')) = inferred'.walls
            /\ ret'.elements = elements' ]_vars

C5_Witness ==
    /\ pc = "returned"
    /\ Len(Interpreted) = 2
    /\ Interpreted[1] # Interpreted[2]
    /\ Len(inferred.walls) = 1
    /\ Len(ret.elements) = 3

AllRawItems == dwg_json.walls \o dwg_json.doors \o dwg_json.windows \o dwg_json.elements

RawMaxY ==
    Max({ RawField(AllRawItems[i], "y") + RawField(AllRawItems[i], "height") :
          i \in 1..Len(AllRawItems) })

\* C6: whenever the raw dataset has at least one spatial item, every
\* interpreted element gets y = max_y - y - height, with max_y the maximum of
\* y+height over all raw items, and keeps its x, width and height.
C6_FlipWheneverSpatial ==
    (pc = "returned" /\ Len(AllRawItems) >= 1) =>
        \A i \in 1..Len(Interpreted) :
            LET before == Get(Interpreted[i], "position", ZeroPosition)
                after == ret.elements[i].position
            IN  /\ Get(after, "y", 0) = RawMaxY - Get(before, "y", 0) - Get(before, "height", 0)
                /\ \A k \in {"x", "width", "height"} :
                       Get(after, k, 0) = Get(before, k, 0)

\* C7: the vertical flip is an involution: flipping twice with the same max_y
\* and the same height gives back the original y.
C7_FlipInvolution ==
    (pc = "flip" /\ flips % 2 = 0) =>
        /\ Get(flip_pos, "y", 0) = Get(flip_orig, "y", 0)
        /\ Get(flip_pos, "height", 0) = Get(flip_orig, "height", 0)

C7_Witness ==
    /\ pc = "flip"
    /\ flips = 2
    /\ max_y > 0
    /\ max_y - Get(flip_orig, "y", 0) - Get(flip_orig, "height", 0) # Get(flip_orig, "y", 0)
    /\ Get(flip_orig, "height", 0) > 0

C9_EveryRoomHasCentroid ==
    pc = "extracted" =>
        \A i \in 1..Len(RoomNames) : rooms[RoomNames[i]].center # NoCenter

RoomKeywords ==
    <<KitchenKeywords, LivingRoomKeywords, BedroomKeywords, BathroomKeywords,
      EntranceKeywords>>

\* the label holds keyword kw somewhere, letter case aside
Occurs(kw, label) ==
    \E off \in 0..Len(label) :
        /\ off + Len(kw) <= Len(label)
        /\ \A j \in 1..Len(kw) : Lower(<<label[off + j]>>) = <<kw[j]>>

Matching(label) == { c \in 1..Len(RoomNames) : \E kw \in RoomKeywords[c] : Occurs(kw, label) }

RECURSIVE MembersOf(_, _)
MembersOf(elems, c) ==
    IF elems = << >> THEN << >>
    ELSE LET e == Head(elems)
             m == Matching(e.label)
         IN  (IF m # {} /\ c = Min(m) THEN << [pos |-> e.position, label |-> e.label] >>
              ELSE << >>) \o MembersOf(Tail(elems), c)

RECURSIVE TotalMembers(_)
TotalMembers(c) ==
    IF c = 0 THEN 0 ELSE Len(rooms[RoomNames[c]].elements) + TotalMembers(c - 1)

\* C10: each element is in the member list of at most one room category, the
\* first in the order kitchen > living_room > bedroom > bathroom > entrance
\* whose keywords occur in the label (letter case aside); an element whose
\* label matches no keyword is in no category.
C10_FirstMatchWins ==
    pc = "extracted" =>
        /\ \A c \in 1..Len(RoomNames) :
               rooms[RoomNames[c]].elements = MembersOf(analysis.elements, c)
        /\ TotalMembers(Len(RoomNames)) =
               Cardinality({ i \in 1..Len(analysis.elements) :
                               Matching(analysis.elements[i].label) # {} })

C10_Witness ==
    /\ pc = "extracted"
    /\ Len(analysis.elements) = 2
    /\ Cardinality(Matching(analysis.elements[1].label)) >= 2
    /\ Matching(analysis.elements[2].label) = {}
    /\ Len(rooms.kitchen.elements) = 1
    /\ \E i \in 1..Len(analysis.elements[1].label) :
           analysis.elements[1].label[i] \in DOMAIN UpperToLower


(***************************************************************************)
(* Properties of the produced description.                                 *)
(***************************************************************************)
Words(text) == { text[i] : i \in 1..Len(text) }

\* the scene assertions of a description: its pieces between ". " separators
RECURSIVE Assertions(_)
Assertions(text) ==
    IF text = << >> THEN {}
    ELSE IF \E i \in 1..Len(text) : text[i] = ". "
    THEN LET i == CHOOSE j \in 1..Len(text) :
                      text[j] = ". " /\ \A k \in 1..(j - 1) : text[k] # ". "
         IN  {SubSeq(text, 1, i - 1)} \cup Assertions(SubSeq(text, i + 1, Len(text)))
    ELSE {text}

KitchenToLivingText ==
    <<"ju", "bang", "(e)", "seo", " ", "geo", "sil", " ", "bo", "neun", " ", "si", "jeom">>

WindowWords == {"window", "windows", "Window", "Windows"}

DepthLabels ==
    {"FOREGROUND", "MIDDLE", "CENTER", "BACKGROUND", "MIDGROUND",
     "foreground", "middle", "midground", "background"}

NegativeWords == {"NO", "No", "no", "NOT", "Not", "not", "without", "never"}

PlanHasWindow(an) == \E i \in 1..Len(an.elements) : an.elements[i].element_type = "window"

CentroidComputed(an, room_name) ==
    \E i \in 1..Len(an.elements) :
        /\ RoomOfLabel(LabelLower(an.elements[i])) = room_name
        /\ DOMAIN an.elements[i].position # {}

\* C11: for every floor plan the kitchen-to-living viewpoint text of the
\* scenario takes the kitchen->living branch, and the returned description has
\* an assertion that puts the kitchen counter in the FOREGROUND and an
\* assertion that puts a window in the BACKGROUND, with or without window
\* elements and computed centroids.
C11_ForegroundCounterBackgroundWindow ==
    (pc = "prompted" /\ viewpoint = KitchenToLivingText) =>
        /\ ViewpointCase(Lower(viewpoint)) = "kitchen_to_living"
        /\ \E a \in Assertions(prompt) :
               {"Kitchen", "counter", "FOREGROUND"} \subseteq Words(a)
        /\ \E a \in Assertions(prompt) :
               "BACKGROUND" \in Words(a) /\ Words(a) \cap WindowWords # {}

C11_Witness ==
    /\ pc = "prompted"
    /\ viewpoint = KitchenToLivingText
    /\ ~PlanHasWindow(analysis)
    /\ ~CentroidComputed(analysis, "kitchen")
    /\ ~CentroidComputed(analysis, "living_room")
    /\ rooms.kitchen.center = DefaultKitchenCenter
    /\ "FOREGROUND" \in Words(prompt)

\* C12: _generate_spatial_prompt returns a non-empty string for every floor
\* plan and viewpoint; an unrecognized viewpoint returns what
\* _convert_floor_plan_to_prompt returns, which is non-empty too, also for a
\* plan with no area, no rooms, no elements and an empty summary.
C12_NeverEmpty ==
    pc = "prompted" =>
        /\ prompt # << >>
        /\ \A i \in 1..Len(prompt) : prompt[i] # ""
        /\ ViewpointCase(Lower(viewpoint)) = "default" =>
               prompt = ConvertFloorPlanToPrompt(analysis)

C12_Witness ==
    /\ pc = "prompted"
    /\ ViewpointCase(Lower(viewpoint)) = "default"
    /\ viewpoint # << >>
    /\ analysis = NoAnalysis
    /\ prompt = <<"modern", "apartment", "interior">>

\* C13: in each of the six recognized viewpoint cases the returned description
\* has at least one assertion with a depth-layer label and at least one
\* negative assertion.
C13_DepthLabelAndNegative ==
    (pc = "prompted" /\ ViewpointCase(Lower(viewpoint)) # "default") =>
        /\ \E a \in Assertions(prompt) : Words(a) \cap DepthLabels # {}
        /\ \E a \in Assertions(prompt) : Words(a) \cap NegativeWords # {}


(***************************************************************************)
(* Properties of the camera seed.                                          *)
(***************************************************************************)
SameHashArguments(a, b) ==
    /\ a[1].elements = b[1].elements
    /\ a[1].estimated_area = b[1].estimated_area
    /\ a[2] = b[2]

C15_SameSeedAcrossRuns ==
    first_seed # << >> =>
        \A c \in run_seeds : SameHashArguments(c, first_seed) => c[3] = first_seed[3]

\* C16: two floor plans whose element sequences differ (in the order, or in a
\* label, x, y, width or height) give different hashed strings for the same
\* viewpoint and area.
C16_EveryChangeChangesHashInput ==
    (/\ pc = "hash_input_done"
     /\ analysis.elements # other.elements
     /\ analysis.estimated_area = other.estimated_area) =>
        hash_input # other_input


(***************************************************************************)
(* Properties of generate_interior_image.                                  *)
(***************************************************************************)
SeedInRange(seed) ==
    /\ ~seed.negative
    /\ seed.hi \in 0..(Base - 1)
    /\ seed.lo \in 0..(Base - 1)

BothGiven(req) ==
    /\ req.floor_plan_analysis # NoValue
    /\ req.viewpoint_request # NoValue
    /\ req.viewpoint_request[1] # << >>

\* C17: a seed handed to the generator is an integer s with 0 <= s < 2^32, a
\* seed is computed only when both a floor-plan analysis and a viewpoint text
\* are given, and a negative hash is reduced to a non-negative seed as well.
C17_SeedAbsentOrUint32 ==
    pc = "generated" =>
        /\ generated.seed # NoValue => (SeedInRange(generated.seed[1]) /\ BothGiven(request))
        /\ "seed" \in DOMAIN generated.input_data =>
               /\ generated.seed # NoValue
               /\ generated.input_data.seed = generated.seed[1]
               /\ SeedInRange(generated.input_data.seed)

C17_Witness ==
    /\ pc = "generated"
    /\ generated.outcome = "replicate"
    /\ "seed" \in DOMAIN generated.input_data
    /\ \E str \in DOMAIN hash_memo : hash_memo[str] = HashValue(TRUE, 0, 0, 0, 5)
    /\ generated.input_data.seed = [negative |-> FALSE, hi |-> 65535, lo |-> 65531]

\* the dataset's items that carry coordinates, over the four keys
ItemsWithCoordinates(d) ==
    { <<k, i>> \in {"walls", "doors", "windows", "elements"} \X (1..3) :
        /\ k \in DOMAIN d
        /\ i <= Len(d[k])
        /\ "coordinates" \in DOMAIN d[k][i]
        /\ DOMAIN d[k][i].coordinates # {} }

Left(d, it) == Get(d[it[1]][it[2]].coordinates, "x", 0)

Bottom(d, it) == Get(d[it[1]][it[2]].coordinates, "y", 0)

Right(d, it) == Left(d, it) + Get(d[it[1]][it[2]].coordinates, "width", 0)

Top(d, it) == Bottom(d, it) + Get(d[it[1]][it[2]].coordinates, "height", 0)

Degenerate(d) ==
    LET its == ItemsWithCoordinates(d)
    IN  \/ its = {}
        \/ Max({ Right(d, it) : it \in its }) = Min({ Left(d, it) : it \in its })
        \/ Max({ Top(d, it) : it \in its }) = Min({ Bottom(d, it) : it \in its })

\* C18: _generate_lineart_from_dwg returns the empty result without an error
\* when the dataset has no item with coordinates or its bounding box has zero
\* width or height, and returns a non-empty raster for every other dataset.
C18_EmptyOrRaster ==
    (pc = "generated" /\ request.dwg_elements # NoValue /\ DOMAIN request.dwg_elements[1] # {}) =>
        /\ ~generated.lineart_raised
        /\ IF Degenerate(request.dwg_elements[1])
           THEN generated.lineart_base64 = Some(<< >>)
           ELSE /\ generated.lineart_base64 # NoValue
                /\ generated.lineart_base64[1] # << >>

\* C19: when the line-art renderer or the depth-map renderer raises, the
\* caller of generate_interior_image gets no error: that conditioning is None
\* and the request goes on to the generation step with the other
\* conditioning, the prompt and the seed.
C19_RendererFailureContained ==
    (pc = "generated" /\ (generated.lineart_raised \/ generated.depth_raised)) =>
        /\ generated.outcome \in {"replicate", "mockup"}
        /\ generated.lineart_raised => generated.lineart_base64 = NoValue
        /\ generated.depth_raised => generated.depth_map_base64 = NoValue
        /\ generated.prompt # << >>
        /\ (generated.seed # NoValue) <=> BothGiven(request)
        /\ generated.outcome = "replicate" =>
               /\ generated.lineart_raised /\ ~generated.depth_raised =>
                      generated.control_image = generated.depth_map_base64
               /\ generated.depth_raised /\ ~generated.lineart_raised =>
                      generated.control_image =
                          (IF generated.lineart_base64 = Some(<< >>) THEN NoValue
                           ELSE generated.lineart_base64)
               /\ "prompt" \in DOMAIN generated.input_data

C19_Witness ==
    /\ pc = "generated"
    /\ generated.lineart_raised
    /\ ~generated.depth_raised
    /\ generated.outcome = "replicate"
    /\ generated.control_type = "depth"
    /\ generated.seed # NoValue

Produced(base64) == base64 # NoValue /\ base64[1] # << >>

\* C20: the conditioning kind handed to the generator is lineart, depth or
\* None; it is lineart exactly when a non-empty line-art raster was produced,
\* depth exactly when none was but a depth map was, None otherwise; and the
\* image handed over is the raster of that kind.
C20_LineartTakesPrecedence ==
    (pc = "generated" /\ generated.outcome = "replicate") =>
        /\ generated.control_type \in {"lineart", "depth", None}
        /\ generated.control_type = "lineart" <=> Produced(generated.lineart_base64)
        /\ generated.control_type = "depth" <=>
               (~Produced(generated.lineart_base64) /\ Produced(generated.depth_map_base64))
        /\ generated.control_type = "lineart" =>
               /\ generated.control_image = generated.lineart_base64
               /\ generated.input_data.image[1].kind = "lineart"
               /\ generated.model_name = "sdxl-controlnet-lineart"
        /\ generated.control_type = "depth" =>
               /\ generated.control_image = generated.depth_map_base64
               /\ generated.input_data.image[1].kind = "depth"
               /\ generated.model_name = "sdxl-controlnet-depth"
        /\ generated.control_type = None =>
               /\ generated.control_image = NoValue
               /\ "image" \notin DOMAIN generated.input_data

C20_Witness ==
    /\ pc = "generated"
    /\ generated.outcome = "replicate"
    /\ Produced(generated.lineart_base64)
    /\ Produced(generated.depth_map_base64)
    /\ generated.control_type = "lineart"
    /\ generated.input_data.image[1].kind = "lineart"

(***************************************************************************)
(* Properties of the camera-relative direction.                            *)
(***************************************************************************)
\* the centroid delta living - kitchen, times len(kitchen) * len(living_room)
DeltaX == rooms.living_room.center[1] * rooms.kitchen.center[3] - rooms.kitchen.center[1] * rooms.living_room.center[3]

DeltaY == rooms.living_room.center[2] * rooms.kitchen.center[3] - rooms.kitchen.center[2] * rooms.living_room.center[3]

Magnitude(n) == Max({n, 0 - n})

\* C21: the direction from the kitchen centroid to the living-room centroid is
\* left if |dx| > |dy| and dx < 0, right if |dx| > |dy| and dx >= 0, forward
\* if |dx| <= |dy| and dy < 0, backward if |dx| <= |dy| and dy >= 0, with
\* (dx, dy) = living - kitchen: one of the four values for every pair of
\* centroids, ties and dx = dy = 0 included.
C21_DirectionByDominantAxis ==
    pc = "directed" =>
        /\ direction \in {"left", "right", "forward", "backward"}
        /\ direction = "left" <=> (Magnitude(DeltaX) > Magnitude(DeltaY) /\ DeltaX < 0)
        /\ direction = "right" <=> (Magnitude(DeltaX) > Magnitude(DeltaY) /\ DeltaX >= 0)
        /\ direction = "forward" <=> (Magnitude(DeltaX) <= Magnitude(DeltaY) /\ DeltaY < 0)
        /\ direction = "backward" <=> (Magnitude(DeltaX) <= Magnitude(DeltaY) /\ DeltaY >= 0)

\* a tie |dx| = |dy| between two computed centroids, decided by the sign of dy
C21_Witness ==
    /\ pc = "directed"
    /\ Len(rooms.kitchen.elements) = 1
    /\ Len(rooms.living_room.elements) = 1
    /\ DeltaX = 2
    /\ DeltaY = -2
    /\ direction = "forward"

(***************************************************************************)
(* Properties of the viewpoint classification.                             *)
(***************************************************************************)
KwKitchen == <<"k", "i", "t", "c", "h", "e", "n">>

KwLiving == <<"l", "i", "v", "i", "n", "g">>

KwFromKitchen == <<"ju", "bang", "(e)", "seo">>

KwFromLiving == <<"geo", "sil", "(e)", "seo">>

\* the keywords of the six recognized cases
CaseKeywords ==
    { KwKitchen, KwLiving, KwFromKitchen, KwFromLiving,
      <<"w", "i", "n", "d", "o", "w">>, <<"chang", "ga">>, <<"e", "n", "t", "r", "a", "n", "c", "e">>, <<"hyeon", "gwan">>,
      <<"b", "e", "d", "r", "o", "o", "m">>, <<"chim", "sil">>, <<"b", "a", "t", "h", "r", "o", "o", "m">>, <<"yok", "sil">> }

\* the keyword condition of each recognized case on a text, in the order
\* kitchen->living, living->kitchen, toward-window, at-entrance, at-bedroom,
\* at-bathroom
CaseMatches(text) ==
    << (Occurs(KwKitchen, text) /\ Occurs(KwLiving, text)) \/ Occurs(KwFromKitchen, text),
       (Occurs(KwLiving, text) /\ Occurs(KwKitchen, text)) \/ Occurs(KwFromLiving, text),
       Occurs(<<"w", "i", "n", "d", "o", "w">>, text) \/ Occurs(<<"chang", "ga">>, text),
       Occurs(<<"e", "n", "t", "r", "a", "n", "c", "e">>, text) \/ Occurs(<<"hyeon", "gwan">>, text),
       Occurs(<<"b", "e", "d", "r", "o", "o", "m">>, text) \/ Occurs(<<"chim", "sil">>, text),
       Occurs(<<"b", "a", "t", "h", "r", "o", "o", "m">>, text) \/ Occurs(<<"yok", "sil">>, text) >>

\* the sentence that places the camera, one per recognized case
CameraSentences ==
    << <<"POV", "shot", "from", "behind", "kitchen", "counter", "looking", "at", "the", "living", "room">>,
       <<"POV", "shot", "from", "living", "room", "sofa", "looking", "at", "the", "open", "kitchen">>,
       <<"Camera", "facing", "towards", "the", "windows">>,
       <<"Camera", "at", "the", "entrance,", "looking", "into", "the", "apartment">>,
       <<"Camera", "at", "the", "bedroom", "entrance,", "looking", "into", "the", "room">>,
       <<"Camera", "at", "the", "bathroom", "entrance,", "looking", "inside">> >>

\* the recognized cases a description was written for
ShownCases(text) == { c \in 1..6 : CameraSentences[c] \in Assertions(text) }

FirstMatching(text) == { c \in 1..6 : CaseMatches(text)[c] /\ \A b \in 1..(c - 1) : ~CaseMatches(text)[b] }

\* C22 as claimed: every viewpoint text gets exactly one of the seven cases,
\* the first whose keywords match in the order of the chain, and it is
\* unrecognized exactly when no keyword of any recognized case occurs in the
\* lower-cased text.
C22_UnrecognizedIffNoKeyword ==
    pc = "viewed" =>
        /\ Cardinality(ShownCases(prompt)) <= 1
        /\ ShownCases(prompt) = FirstMatching(viewpoint)
        /\ ShownCases(prompt) = {} <=> \A kw \in CaseKeywords : ~Occurs(kw, viewpoint)

\* C22 as amended: every viewpoint text gets exactly one of the seven cases,
\* the first whose keyword condition holds in the order of the chain, and it
\* is unrecognized (the description is the one of
\* _convert_floor_plan_to_prompt) exactly when the keyword condition of no
\* recognized case holds; "kitchen" or "living" alone is no such condition.
C22_FirstMatchingCase ==
    pc = "viewed" =>
        /\ Cardinality(ShownCases(prompt)) <= 1
        /\ ShownCases(prompt) = FirstMatching(viewpoint)
        /\ ShownCases(prompt) = {} <=> \A c \in 1..6 : ~CaseMatches(viewpoint)[c]
        /\ ShownCases(prompt) = {} => prompt = ConvertFloorPlanToPrompt(analysis)

\* a text with the keywords of two cases gets the earlier one
C22_Witness ==
    /\ pc = "viewed"
    /\ CaseMatches(viewpoint)[4]
    /\ CaseMatches(viewpoint)[5]
    /\ ShownCases(prompt) = {4}

(***************************************************************************)
(* Properties of the line-art drawing.                                     *)
(***************************************************************************)
Lineart == generated.lineart_base64[1][1]

\* a pixel coordinate n / den lies in [lo, hi]
Within(n, den, lo, hi) == lo * den <= n /\ n <= hi * den

InsideMargins(rect, den) ==
    /\ Within(rect.box[1], den, Margin, CanvasWidth - Margin)
    /\ Within(rect.box[3], den, Margin, CanvasWidth - Margin)
    /\ Within(rect.box[2], den, Margin, CanvasHeight - Margin)
    /\ Within(rect.box[4], den, Margin, CanvasHeight - Margin)

\* the outline of an item is its width and height times one scale
UniformlyScaled(rect, scale) ==
    rect.kind # "window_inner" =>
        /\ (rect.box[3] - rect.box[1]) = Get(rect.coordinates, "width", 0) * scale[1]
        /\ (rect.box[4] - rect.box[2]) = Get(rect.coordinates, "height", 0) * scale[1]

\* C23: in line-art mode the drawing is placed with one uniform scale =
\* min(scale_x, scale_y) and fits the canvas: for every dataset with a
\* non-degenerate bounding box and no negative width or height, the four
\* corners of every drawn wall, door and window rectangle lie within
\* [margin, width - margin] x [margin, height - margin], and both axes use the
\* same scale.
C23_DrawingFitsCanvas ==
    (pc = "generated" /\ Produced(generated.lineart_base64)) =>
        \A i \in 1..Len(Lineart.rectangles) :
            /\ InsideMargins(Lineart.rectangles[i], Lineart.scale[2])
            /\ UniformlyScaled(Lineart.rectangles[i], Lineart.scale)

(***************************************************************************)
(* Properties of the room centroids.                                       *)
(***************************************************************************)
\* the sum of coordinate k (50 when the position has none) over the members
\* whose index is in I
RECURSIVE CoordinateSum(_, _, _)
CoordinateSum(members, I, k) ==
    IF I = {} THEN 0
    ELSE LET i == CHOOSE j \in I : TRUE
         IN  Get(members[i].pos, k, 50) + CoordinateSum(members, I \ {i}, k)

\* the centre is the mean of the members whose index is in I
IsMeanOf(center, members, I) ==
    /\ center # NoCenter
    /\ I # {}
    /\ center[1] * Cardinality(I) = CoordinateSum(members, I, "x") * center[3]
    /\ center[2] * Cardinality(I) = CoordinateSum(members, I, "y") * center[3]

Positioned(members) == { i \in 1..Len(members) : DOMAIN members[i].pos # {} }

RoomsReturned == pc \in {"extracted", "prompted"}

\* C24 as claimed: for every room category with at least one member element
\* the centroid is the arithmetic mean of the (x, y) positions of exactly the
\* elements of that category's member list.
C24_MeanOfAllMembers ==
    RoomsReturned =>
        \A r \in 1..Len(RoomNames) :
            rooms[RoomNames[r]].elements # << >> =>
                IsMeanOf(rooms[RoomNames[r]].center, rooms[RoomNames[r]].elements,
                         1..Len(rooms[RoomNames[r]].elements))

\* C24 as amended: for every room category with at least one member that has
\* a position, the centroid is the arithmetic mean of the (x, y) of exactly
\* those members of its list that have a position (an absent x or y counts
\* as 50); a member without a position is in the list and not in the mean.
C24_MeanOfPositionedMembers ==
    RoomsReturned =>
        \A r \in 1..Len(RoomNames) :
            Positioned(rooms[RoomNames[r]].elements) # {} =>
                IsMeanOf(rooms[RoomNames[r]].center, rooms[RoomNames[r]].elements,
                         Positioned(rooms[RoomNames[r]].elements))

\* a category with a member that has no position next to one that has
C24_Witness ==
    /\ pc = "extracted"
    /\ Len(rooms.bedroom.elements) = 2
    /\ Cardinality(Positioned(rooms.bedroom.elements)) = 1
    /\ rooms.bedroom.center = <<20, 50, 1>>

(***************************************************************************)
(* Properties of the viewpoint cases over all the texts served.            *)
(***************************************************************************)
AllServed == pc = "view" /\ next_viewpoint > Len(ViewpointTexts)

\* the text holds both English keywords of the living->kitchen case and not
\* its Korean marker
EnglishLivingAndKitchen(text) ==
    /\ Occurs(KwLiving, text)
    /\ Occurs(KwKitchen, text)
    /\ ~Occurs(KwFromLiving, text)

\* C25: each of the six recognized viewpoint cases is reachable, and the
\* living->kitchen case is selected for some viewpoint text that holds both
\* "living" and "kitchen" and not its Korean marker (its English condition is
\* not shadowed by the kitchen->living branch tested before it), in
\* _generate_spatial_prompt and in _generate_perspective_depth_map alike.
C25_EveryCaseReachable ==
    AllServed =>
        /\ \A c \in 1..6 : \E e \in seen : ShownCases(e.prompt) = {c}
        /\ \E e \in seen : EnglishLivingAndKitchen(e.viewpoint) /\ ShownCases(e.prompt) = {2}
        /\ \E e \in seen : EnglishLivingAndKitchen(e.viewpoint) /\ e.depth_map[1].case = "living_to_kitchen"

(***************************************************************************)
(* Properties of the place of the inferred wall.                           *)
(***************************************************************************)
\* C26: an inferred outer wall lies inside the vertical extent of the
\* normalized drawing: whenever inference fires with max_y > 0, the wall's
\* target y is max_y - min_window_y - thickness and satisfies 0 <= y and
\* y + height <= max_y, for every dataset whose windows have no negative
\* coordinate.
C26_InferredWallInsideExtent ==
    (pc = "returned" /\ max_y > 0) =>
        \A i \in AddedByInference :
            /\ ret.elements[i].position.y = max_y - MinWindowY - WallThickness
            /\ 0 <= ret.elements[i].position.y
            /\ ret.elements[i].position.y + ret.elements[i].position.height <= max_y

(***************************************************************************)
(* Properties of the window list.                                          *)
(***************************************************************************)
WindowElements(an) == { i \in 1..Len(an.elements) : an.elements[i].element_type = "window" }

\* the index of the k-th window-typed element of the plan
NthWindow(an, k) ==
    CHOOSE i \in WindowElements(an) : Cardinality({ j \in WindowElements(an) : j < i }) = k - 1

\* the entry is the one of that element: its label and its position, a
\* missing coordinate replaced by 50, 50, 20, 5
EntryOf(entry, element) ==
    /\ entry.label = element.label
    /\ entry.x = Get(element.position, "x", 50)
    /\ entry.y = Get(element.position, "y", 50)
    /\ entry.width = Get(element.position, "width", 20)
    /\ entry.height = Get(element.position, "height", 5)

\* C27: the window list returned by _extract_room_positions is never empty:
\* it has one entry per window-typed element of the plan, in element order,
\* and exactly one default continuous window when the plan has no window
\* element; so the description of the kitchen->living and entrance cases
\* always has its window assertion and the kitchen->living depth map always
\* has its window rectangle.
C27_WindowListNeverEmpty ==
    pc \in {"viewed", "drawn"} =>
        /\ rooms.windows # << >>
        /\ IF WindowElements(analysis) = {}
           THEN /\ Len(rooms.windows) = 1
                /\ rooms.windows[1].is_continuous
                /\ rooms.windows[1].label = <<"geo", "sil", " ", "chang", "mun">>
           ELSE /\ Len(rooms.windows) = Cardinality(WindowElements(analysis))
                /\ \A k \in 1..Len(rooms.windows) :
                       EntryOf(rooms.windows[k], analysis.elements[NthWindow(analysis, k)])
        /\ ShownCases(prompt) = {1} =>
               \E a \in Assertions(prompt) : "BACKGROUND" \in Words(a) /\ Words(a) \cap WindowWords # {}
        /\ ShownCases(prompt) = {4} =>
               \E a \in Assertions(prompt) : {"Windows", "distance"} \subseteq Words(a)
        /\ (pc = "drawn" /\ depth_map[1].case = "kitchen_to_living") =>
               depth_map[1].window_rect # NoValue

\* a plan without a window element, drawn from the kitchen
C27_Witness ==
    /\ pc = "drawn"
    /\ WindowElements(analysis) = {}
    /\ Len(rooms.windows) = 1
    /\ ShownCases(prompt) = {1}
    /\ depth_map[1].window_rect # NoValue

(***************************************************************************)
(* Properties of the demolition requests.                                  *)
(***************************************************************************)
ParsedAsObject == ~response.raised /\ response.value.json = "object"

\* C28: validate_demolition_plan never reports is_safe = true unless the
\* response was parsed successfully and itself carries is_safe = true: when
\* the response is no JSON, or is parsed and has no is_safe field, the
\* returned DemolitionValidation has is_safe = false.
C28_SafeOnlyWhenResponseSaysSo ==
    (pc = "validated" /\ ~validation.raised) =>
        /\ validation.value.is_safe =>
               /\ ParsedAsObject
               /\ "is_safe" \in DOMAIN response.value.value
               /\ response.value.value.is_safe = Some(TRUE)
        /\ response.value.json = "invalid" => ~validation.value.is_safe
        /\ (ParsedAsObject /\ "is_safe" \notin DOMAIN response.value.value) => ~validation.value.is_safe


Selected(element) == \E i \in 1..Len(demolition_plan[1].selected_elements) : demolition_plan[1].selected_elements[i] = element.label

NotSelected(element) == ~Selected(element)

\* list is the elements of subsequence sub, in its order, each with the status
ListsInOrder(list, sub, state) ==
    /\ Len(list) = Len(sub)
    /\ \A i \in 1..Len(sub) :
          /\ list[i].label = sub[i].label
          /\ list[i].element_type = sub[i].element_type
          /\ list[i].position = sub[i].position
          /\ list[i].status = state

CleanSlatePartitions ==
    pc = "visualized" =>
        /\ ListsInOrder(clean_slate.demolished_elements, SelectSeq(analysis.elements, Selected), "demolished")
        /\ ListsInOrder(clean_slate.remaining_elements, SelectSeq(analysis.elements, NotSelected), "remaining")
        /\ clean_slate.original_elements_count = Len(analysis.elements)
        /\ clean_slate.remaining_elements_count = Len(clean_slate.remaining_elements)
        /\ clean_slate.demolished_elements_count = Len(clean_slate.demolished_elements)
        /\ clean_slate.remaining_elements_count + clean_slate.demolished_elements_count = clean_slate.original_elements_count

InputsUnchanged == pc = "clean_slate" => (analysis' = analysis /\ demolition_plan' = demolition_plan)

\* C29: generate_clean_slate_visualization partitions the elements of the
\* floor plan: the demolished list is the elements whose label is selected in
\* the demolition plan, the remaining list is the others, both in the order
\* of the floor plan, so every element is in exactly one list and the two
\* counts add up to the original count; the call changes neither the
\* analysis nor the plan.
C29_CleanSlatePartitionsElements == [](CleanSlatePartitions) /\ [][InputsUnchanged]_vars

C29_Witness ==
    /\ pc = "visualized"
    /\ clean_slate.demolished_elements_count = 3
    /\ clean_slate.remaining_elements_count = 1
    /\ clean_slate.demolished_elements[1].label = clean_slate.demolished_elements[3].label
    /\ clean_slate.remaining_elements[1].element_type = "pillar"


(***************************************************************************)
(* Properties of _generate_with_replicate.                                 *)
(***************************************************************************)
ReplicateReturnsWell ==
    /\ polls <= MaxPolls
    /\ pc = "returned" =>
          /\ replicate_result.prompt_used = replicate_args.prompt
          /\ replicate_result.success => (status = "succeeded" /\ polls >= 1)
          /\ ~replicate_result.success => "error" \in DOMAIN replicate_result
          /\ status # "succeeded" => ~replicate_result.success
    /\ pc = "polling" => status \notin {"succeeded", "failed"}

NoPollAfterFinalStatus == status \in {"succeeded", "failed"} => (polls' = polls \/ pc' = "replicate")

\* C30: _generate_with_replicate always ends with a result: it polls the
\* status at most 36 times, no poll follows one that observed "succeeded"
\* or "failed", success is true only when the last poll observed
\* "succeeded", every other outcome is a result with success false, an
\* error text and the prompt, and a started loop always comes to its return.
C30_ReplicateAlwaysReturns ==
    /\ []ReplicateReturnsWell
    /\ [][NoPollAfterFinalStatus]_vars
    /\ (pc = "polling") ~> (pc = "returned")

C30_Witness ==
    /\ pc = "returned"
    /\ polls = MaxPolls
    /\ status = "processing"
    /\ replicate_result = ReplicateFailure("Generation timeout (3 minutes)", replicate_args)

====
